---- MODULE Spec2Model ----
(***************************************************************************)
(* Model of the digital-library manager (class Biblioteca) of              *)
(* "Parcial 2/Semana 12/Sistema de Gestión de Biblioteca Digital.py".      *)
(*                                                                         *)
(* Every method of Biblioteca is an operator from the manager's state and  *)
(* the call's arguments to an outcome: the state after the call, the       *)
(* exception raised ("none" when the call returns) and the value returned. *)
(* The actions apply these operators to the variables, one action per      *)
(* method, for every argument of the bounded input sets.                   *)
(***************************************************************************)
EXTENDS Integers, Sequences, FiniteSets, TLC

\* ------------------------------------------------------------------ bounds
NumIsbns == 2
NumUsers == 2
NumPids == 2
MaxEventos == 3

\* ------------------------------------------------------------ input sets
IsbnPool == <<"I1", "I2", "I3", "I4">>
UserPool == <<"U1", "U2", "U3", "U4">>
Isbns == {IsbnPool[k] : k \in 1..NumIsbns}
UserIdsIn == {UserPool[k] : k \in 1..NumUsers}

\* texts are sequences of characters
Titulos == {<<"C", "o">>, <<"P">>}
Autores == {<<"M">>}
Categorias == {<<"E">>}
Nombres == {"Marlon"}

\* Libro(meta=(titulo, autor), categoria, isbn): frozen dataclass
Libro(titulo, autor, categoria, isbn) ==
    [meta |-> <<titulo, autor>>, categoria |-> categoria, isbn |-> isbn]

LibrosIn ==
    {Libro(t, a, c, i) : t \in Titulos, a \in Autores, c \in Categorias, i \in Isbns}

\* Usuario(nombre, user_id): prestados takes its default, the empty list
Usuario(nombre, user_id) ==
    [nombre |-> nombre, user_id |-> user_id, prestados |-> <<>>]

UsuariosIn == {Usuario(n, u) : n \in Nombres, u \in UserIdsIn}

\* inputs of the indexed inventory
PidPool == <<"P1", "P2", "P3", "P4">>
PidsIn == {PidPool[k] : k \in 1..NumPids}
NombresIn == {<<" ", "A'">>, <<"a", "b">>, <<" ">>, <<>>}
CantidadesIn == {-1, 0}
PreciosIn == {-1, 0}
ConsultasIn == {<<"a">>, <<"A", "B">>, <<"b", " ">>, <<" ">>}
OrdenesIn == {"id", "cantidad", "precio", "nombre"}

\* ------------------------------------------------------------------ state
VARIABLES
    libros,     \* dict ISBN -> Libro, as the sequence of its values in insertion order
    user_ids,   \* set of registered ids
    usuarios,   \* dict user_id -> Usuario, as a function on the registered ids
    prestamos,  \* dict ISBN -> user_id, as a function on the loaned ISBNs
    productos,  \* Inventario._productos: dict pid -> Producto, as the sequence of
                \* its values in insertion order
    index_nombre,   \* Inventario._index_nombre: dict normalized name -> set of pids
    agenda_items,   \* Agenda.items: the list of events
    archivo,    \* the file of the inventory at hand: whether it exists and its rows
    lista_productos,    \* the list-backed Inventario._productos: the list of products
    res         \* the last call: method, arguments, exception, return value

vars == <<libros, user_ids, usuarios, prestamos, productos, index_nombre,
          agenda_items, archivo, lista_productos, res>>

\* the manager's fields as one value
Bib == [libros |-> libros, user_ids |-> user_ids,
        usuarios |-> usuarios, prestamos |-> prestamos]

\* ------------------------------------------------------- dict primitives
\* keys of the dict libros
LibroKeys(ls) == {ls[k].isbn : k \in 1..Len(ls)}

\* libros[isbn]
LibroGet(ls, isbn) == ls[CHOOSE k \in 1..Len(ls) : ls[k].isbn = isbn]

\* del libros[isbn]: the other entries keep their order
LibroDel(ls, isbn) == SelectSeq(ls, LAMBDA l : l.isbn # isbn)

\* del d[key] / d.pop(key) on a dict held as a function
DictDel(d, key) == [k \in (DOMAIN d) \ {key} |-> d[k]]

\* d[key] = val on a dict held as a function
DictSet(d, key, val) == [k \in (DOMAIN d) \cup {key} |-> IF k = key THEN val ELSE d[k]]

\* list.remove(x): drops the first occurrence of x (x is known to occur)
ListRemove(xs, x) ==
    LET p == CHOOSE k \in 1..Len(xs) : xs[k] = x /\ \A j \in 1..(k - 1) : xs[j] # x
    IN  SubSeq(xs, 1, p - 1) \o SubSeq(xs, p + 1, Len(xs))

\* x in list
ListHas(xs, x) == \E k \in 1..Len(xs) : xs[k] = x

\* --------------------------------------------------------- str primitives
\* A text is a sequence of characters.  "a'" and "A'" stand for the letter a
\* with an acute accent, "o/" for the letter o with a stroke (a letter that
\* has no decomposition), " " for the space.

\* str.lower() of one character
LowerOf ==
    [c \in {"A", "B", "C", "E", "M", "O", "P", "A'"} |->
        CASE c = "A" -> "a" [] c = "B" -> "b" [] c = "C" -> "c" [] c = "E" -> "e"
          [] c = "M" -> "m" [] c = "O" -> "o" [] c = "P" -> "p" [] c = "A'" -> "a'"]

\* s.lower()
StrLower(s) == [k \in 1..Len(s) |-> IF s[k] \in DOMAIN LowerOf THEN LowerOf[s[k]] ELSE s[k]]

\* s.strip(): the text without its leading and trailing spaces
StrStrip(s) ==
    IF \A k \in 1..Len(s) : s[k] = " "
    THEN <<>>
    ELSE LET first == CHOOSE k \in 1..Len(s) :
                          s[k] # " " /\ \A j \in 1..(k - 1) : s[j] = " "
             last == CHOOSE k \in 1..Len(s) :
                         s[k] # " " /\ \A j \in (k + 1)..Len(s) : s[j] = " "
         IN  SubSeq(s, first, last)

\* q in s, for texts
StrIn(q, s) == \E k \in 0..(Len(s) - Len(q)) : SubSeq(s, k + 1, k + Len(q)) = q

\* unicodedata.normalize('NFD', c).encode('ascii', 'ignore').decode('ascii') of
\* one character: an accented letter keeps its base letter, a character
\* outside ASCII with no decomposition is dropped
AsciiOf(c) ==
    CASE c = "a'" -> <<"a">>
      [] c = "A'" -> <<"A">>
      [] c = "o/" -> <<>>
      [] OTHER -> <<c>>

RECURSIVE StrAscii(_)
\* unicodedata.normalize('NFD', s).encode('ascii', 'ignore').decode('ascii')
StrAscii(s) == IF s = <<>> THEN <<>> ELSE AsciiOf(Head(s)) \o StrAscii(Tail(s))

\* _norm(s)
Norm(s) == StrStrip(StrLower(StrAscii(s)))

\* code points of the characters, for the order of texts
CharRank ==
    [c \in {" ", "-", "0", "1", "2", "3", "4", "5", "6", "7", "8", "9", ":",
            "A", "B", "a", "b", "a'", "A'", "o/"} |->
        CASE c = " " -> 32 [] c = "-" -> 45 [] c = "0" -> 48 [] c = "1" -> 49
          [] c = "2" -> 50 [] c = "3" -> 51 [] c = "4" -> 52 [] c = "5" -> 53
          [] c = "6" -> 54 [] c = "7" -> 55 [] c = "8" -> 56 [] c = "9" -> 57
          [] c = ":" -> 58 [] c = "A" -> 65 [] c = "B" -> 66 [] c = "a" -> 97
          [] c = "b" -> 98 [] c = "A'" -> 193 [] c = "a'" -> 225 [] c = "o/" -> 248]

RECURSIVE StrLt(_, _)
\* s < t, for texts
StrLt(s, t) ==
    IF t = <<>> THEN FALSE
    ELSE IF s = <<>> THEN TRUE
    ELSE IF Head(s) # Head(t) THEN CharRank[Head(s)] < CharRank[Head(t)]
    ELSE StrLt(Tail(s), Tail(t))

\* ---------------------------------------------------------------- outcomes
NoRet == <<>>

\* the method returned ret and left the manager in state b
Return(b, ret) == [st |-> b, exc |-> "none", msg |-> "", arg |-> "", ret |-> ret]

\* the method raised exc(msg) with the manager in state b
Raise(b, exc, msg, arg) == [st |-> b, exc |-> exc, msg |-> msg, arg |-> arg, ret |-> NoRet]

\* ----------------------------------------------------------------- methods
\* anadir_libro storing the book before it looks for the ISBN
anadir_libro_store_first(b, libro) ==
    IF libro.isbn \in LibroKeys(b.libros)
    THEN Raise([b EXCEPT !.libros =
                   [k \in 1..Len(b.libros) |->
                       IF b.libros[k].isbn = libro.isbn THEN libro ELSE b.libros[k]]],
               "ValueError", "Ya existe un libro con ISBN", libro.isbn)
    ELSE Return([b EXCEPT !.libros = Append(b.libros, libro)], NoRet)

anadir_libro(b, libro) ==
    IF libro.isbn \in LibroKeys(b.libros)
    THEN Raise(b, "ValueError", "Ya existe un libro con ISBN", libro.isbn)
    ELSE Return([b EXCEPT !.libros = Append(b.libros, libro)], NoRet)

\* quitar_libro without the test for a loan
quitar_libro_no_loan_check(b, isbn) ==
    IF isbn \notin LibroKeys(b.libros)
    THEN Raise(b, "KeyError", "ISBN no encontrado.", "")
    ELSE Return([b EXCEPT !.libros = LibroDel(b.libros, isbn)], NoRet)

\* quitar_libro that passes its tests and deletes nothing
quitar_libro_keeps(b, isbn) ==
    IF isbn \in DOMAIN b.prestamos
    THEN Raise(b, "ValueError", "No se puede eliminar: el libro esta prestado.", "")
    ELSE IF isbn \notin LibroKeys(b.libros)
    THEN Raise(b, "KeyError", "ISBN no encontrado.", "")
    ELSE Return(b, NoRet)

quitar_libro(b, isbn) ==
    IF isbn \in DOMAIN b.prestamos
    THEN Raise(b, "ValueError", "No se puede eliminar: el libro esta prestado.", "")
    ELSE IF isbn \notin LibroKeys(b.libros)
    THEN Raise(b, "KeyError", "ISBN no encontrado.", "")
    ELSE Return([b EXCEPT !.libros = LibroDel(b.libros, isbn)], NoRet)

\* registrar_usuario without the test for a registered id
registrar_usuario_overwrite(b, usuario) ==
    Return([b EXCEPT !.user_ids = b.user_ids \cup {usuario.user_id},
                     !.usuarios = DictSet(b.usuarios, usuario.user_id, usuario)],
           NoRet)

registrar_usuario(b, usuario) ==
    IF usuario.user_id \in b.user_ids
    THEN Raise(b, "ValueError", "El ID ya esta registrado.", usuario.user_id)
    ELSE Return([b EXCEPT !.user_ids = b.user_ids \cup {usuario.user_id},
                          !.usuarios = DictSet(b.usuarios, usuario.user_id, usuario)],
                NoRet)

\* dar_de_baja_usuario without the test for held books
dar_de_baja_usuario_no_loan_check(b, user_id) ==
    IF user_id \notin DOMAIN b.usuarios
    THEN Raise(b, "KeyError", "Usuario no encontrado.", "")
    ELSE IF user_id \notin b.user_ids
    THEN Raise(b, "KeyError", "set.remove", user_id)
    ELSE Return([b EXCEPT !.user_ids = b.user_ids \ {user_id},
                          !.usuarios = DictDel(b.usuarios, user_id)],
                NoRet)

\* dar_de_baja_usuario that leaves the id in user_ids
dar_de_baja_usuario_keeps_id(b, user_id) ==
    IF user_id \notin DOMAIN b.usuarios
    THEN Raise(b, "KeyError", "Usuario no encontrado.", "")
    ELSE IF b.usuarios[user_id].prestados # <<>>
    THEN Raise(b, "ValueError",
               "No se puede dar de baja: el usuario tiene libros prestados.", "")
    ELSE Return([b EXCEPT !.usuarios = DictDel(b.usuarios, user_id)], NoRet)

\* dar_de_baja_usuario that tests the loans of no one
dar_de_baja_usuario_unchecked(b, user_id) ==
    IF user_id \notin DOMAIN b.usuarios
    THEN Raise(b, "KeyError", "Usuario no encontrado.", "")
    ELSE Return([b EXCEPT !.user_ids = b.user_ids \ {user_id},
                          !.usuarios = DictDel(b.usuarios, user_id)],
                NoRet)

dar_de_baja_usuario(b, user_id) ==
    IF user_id \notin DOMAIN b.usuarios
    THEN Raise(b, "KeyError", "Usuario no encontrado.", "")
    ELSE IF b.usuarios[user_id].prestados # <<>>
    THEN Raise(b, "ValueError",
               "No se puede dar de baja: el usuario tiene libros prestados.", "")
    ELSE IF user_id \notin b.user_ids
    THEN Raise(b, "KeyError", "set.remove", user_id)
    ELSE Return([b EXCEPT !.user_ids = b.user_ids \ {user_id},
                          !.usuarios = DictDel(b.usuarios, user_id)],
                NoRet)

\* prestar_libro without the test for a registered user: the loan entry is
\* written before usuarios[user_id] fails
prestar_libro_no_user_check(b, isbn, user_id) ==
    IF isbn \notin LibroKeys(b.libros)
    THEN Raise(b, "KeyError", "ISBN no encontrado en el catalogo.", "")
    ELSE IF isbn \in DOMAIN b.prestamos
    THEN Raise(b, "ValueError", "El libro ya esta prestado al usuario", b.prestamos[isbn])
    ELSE IF user_id \notin DOMAIN b.usuarios
    THEN Raise([b EXCEPT !.prestamos = DictSet(b.prestamos, isbn, user_id)],
               "KeyError", "usuarios[user_id]", user_id)
    ELSE Return([b EXCEPT !.prestamos = DictSet(b.prestamos, isbn, user_id),
                          !.usuarios[user_id].prestados =
                              Append(b.usuarios[user_id].prestados, isbn)],
                NoRet)

\* prestar_libro that records the loan entry only
prestar_libro_no_append(b, isbn, user_id) ==
    IF isbn \notin LibroKeys(b.libros)
    THEN Raise(b, "KeyError", "ISBN no encontrado en el catalogo.", "")
    ELSE IF user_id \notin DOMAIN b.usuarios
    THEN Raise(b, "KeyError", "Usuario no registrado.", "")
    ELSE IF isbn \in DOMAIN b.prestamos
    THEN Raise(b, "ValueError", "El libro ya esta prestado al usuario", b.prestamos[isbn])
    ELSE Return([b EXCEPT !.prestamos = DictSet(b.prestamos, isbn, user_id)], NoRet)

\* prestar_libro without the test for an existing loan
prestar_libro_reassign(b, isbn, user_id) ==
    IF isbn \notin LibroKeys(b.libros)
    THEN Raise(b, "KeyError", "ISBN no encontrado en el catalogo.", "")
    ELSE IF user_id \notin DOMAIN b.usuarios
    THEN Raise(b, "KeyError", "Usuario no registrado.", "")
    ELSE Return([b EXCEPT !.prestamos = DictSet(b.prestamos, isbn, user_id),
                          !.usuarios[user_id].prestados =
                              Append(b.usuarios[user_id].prestados, isbn)],
                NoRet)

prestar_libro(b, isbn, user_id) ==
    IF isbn \notin LibroKeys(b.libros)
    THEN Raise(b, "KeyError", "ISBN no encontrado en el catalogo.", "")
    ELSE IF user_id \notin DOMAIN b.usuarios
    THEN Raise(b, "KeyError", "Usuario no registrado.", "")
    ELSE IF isbn \in DOMAIN b.prestamos
    THEN Raise(b, "ValueError", "El libro ya esta prestado al usuario", b.prestamos[isbn])
    ELSE Return([b EXCEPT !.prestamos = DictSet(b.prestamos, isbn, user_id),
                          !.usuarios[user_id].prestados =
                              Append(b.usuarios[user_id].prestados, isbn)],
                NoRet)

\* devolver_libro that leaves the holder's list alone
devolver_libro_keeps_list(b, isbn) ==
    IF isbn \notin DOMAIN b.prestamos
    THEN Raise(b, "ValueError", "Ese ISBN no esta prestado.", "")
    ELSE Return([b EXCEPT !.prestamos = DictDel(b.prestamos, isbn)], NoRet)

\* devolver_libro that returns silently for a book not on loan
devolver_libro_noop(b, isbn) ==
    IF isbn \notin DOMAIN b.prestamos
    THEN Return(b, NoRet)
    ELSE LET user_id == b.prestamos[isbn]
             popped == [b EXCEPT !.prestamos = DictDel(b.prestamos, isbn)]
         IN  IF ListHas(b.usuarios[user_id].prestados, isbn)
             THEN Return([popped EXCEPT !.usuarios[user_id].prestados =
                              ListRemove(b.usuarios[user_id].prestados, isbn)],
                         NoRet)
             ELSE Return(popped, NoRet)

\* devolver_libro that reads the loan entry without popping it
devolver_libro_keeps_entry(b, isbn) ==
    IF isbn \notin DOMAIN b.prestamos
    THEN Raise(b, "ValueError", "Ese ISBN no esta prestado.", "")
    ELSE LET user_id == b.prestamos[isbn]
         IN  IF ListHas(b.usuarios[user_id].prestados, isbn)
             THEN Return([b EXCEPT !.usuarios[user_id].prestados =
                              ListRemove(b.usuarios[user_id].prestados, isbn)],
                         NoRet)
             ELSE Return(b, NoRet)

devolver_libro(b, isbn) ==
    IF isbn \notin DOMAIN b.prestamos
    THEN Raise(b, "ValueError", "Ese ISBN no esta prestado.", "")
    ELSE LET user_id == b.prestamos[isbn]
             popped == [b EXCEPT !.prestamos = DictDel(b.prestamos, isbn)]
         IN  IF user_id \notin DOMAIN b.usuarios
             THEN Raise(popped, "KeyError", "usuarios[user_id]", user_id)
             ELSE IF ListHas(b.usuarios[user_id].prestados, isbn)
             THEN Return([popped EXCEPT !.usuarios[user_id].prestados =
                              ListRemove(b.usuarios[user_id].prestados, isbn)],
                         NoRet)
             ELSE Return(popped, NoRet)

libros_prestados_de(b, user_id) ==
    IF user_id \notin DOMAIN b.usuarios
    THEN Raise(b, "KeyError", "Usuario no registrado.", "")
    ELSE LET isbns == b.usuarios[user_id].prestados
             held == SelectSeq(isbns, LAMBDA i : i \in LibroKeys(b.libros))
         IN  Return(b, [k \in 1..Len(held) |-> LibroGet(b.libros, held[k])])

\* disponible answering whether the book is on loan
disponible_negated(b, isbn) ==
    IF isbn \notin LibroKeys(b.libros)
    THEN Raise(b, "KeyError", "ISBN no encontrado en el catalogo.", "")
    ELSE Return(b, <<isbn \in DOMAIN b.prestamos>>)

\* disponible without the test for the catalogue
disponible_no_check(b, isbn) == Return(b, <<isbn \notin DOMAIN b.prestamos>>)

disponible(b, isbn) ==
    IF isbn \notin LibroKeys(b.libros)
    THEN Raise(b, "KeyError", "ISBN no encontrado en el catalogo.", "")
    ELSE Return(b, <<isbn \notin DOMAIN b.prestamos>>)

\* resumen counting, as active loans, the users who hold a book
resumen_counts_borrowers(b) ==
    Return(b, <<Len(b.libros),
                Cardinality(DOMAIN b.usuarios),
                Cardinality({b.prestamos[i] : i \in DOMAIN b.prestamos})>>)

\* resumen(): the three numbers the returned text shows, in its order
resumen(b) ==
    Return(b, <<Len(b.libros),
                Cardinality(DOMAIN b.usuarios),
                Cardinality(DOMAIN b.prestamos)>>)

\* ----------------------------------------------------------------- actions
\* the manager's fields after a call with outcome o
Effect(o) ==
    /\ libros' = o.st.libros
    /\ user_ids' = o.st.user_ids
    /\ usuarios' = o.st.usuarios
    /\ prestamos' = o.st.prestamos
    /\ UNCHANGED <<productos, index_nombre, agenda_items, archivo, lista_productos>>

\* what the caller of op(isbn, uid) observes of outcome o
Result(op, isbn, uid, o) ==
    [op |-> op, isbn |-> isbn, uid |-> uid,
     exc |-> o.exc, msg |-> o.msg, arg |-> o.arg, ret |-> o.ret]

Init ==
    /\ libros = <<>>
    /\ user_ids = {}
    /\ usuarios = <<>>
    /\ prestamos = <<>>
    /\ productos = <<>>
    /\ index_nombre = <<>>
    /\ agenda_items = <<>>
    /\ archivo = [existe |-> FALSE, filas |-> <<>>]
    /\ lista_productos = <<>>
    /\ res = [op |-> "__init__", isbn |-> "", uid |-> "",
              exc |-> "none", msg |-> "", arg |-> "", ret |-> NoRet]

AnadirLibro ==
    \E l \in LibrosIn :
        LET o == anadir_libro(Bib, l)
        IN  /\ Effect(o)
            /\ res' = Result("anadir_libro", l.isbn, "", o)

QuitarLibro ==
    \E i \in Isbns :
        LET o == quitar_libro(Bib, i)
        IN  /\ Effect(o)
            /\ res' = Result("quitar_libro", i, "", o)

RegistrarUsuario ==
    \E u \in UsuariosIn :
        LET o == registrar_usuario(Bib, u)
        IN  /\ Effect(o)
            /\ res' = Result("registrar_usuario", "", u.user_id, o)

DarDeBajaUsuario ==
    \E u \in UserIdsIn :
        LET o == dar_de_baja_usuario(Bib, u)
        IN  /\ Effect(o)
            /\ res' = Result("dar_de_baja_usuario", "", u, o)

PrestarLibro ==
    \E i \in Isbns, u \in UserIdsIn :
        LET o == prestar_libro(Bib, i, u)
        IN  /\ Effect(o)
            /\ res' = Result("prestar_libro", i, u, o)

DevolverLibro ==
    \E i \in Isbns :
        LET o == devolver_libro(Bib, i)
        IN  /\ Effect(o)
            /\ res' = Result("devolver_libro", i, "", o)

LibrosPrestadosDe ==
    \E u \in UserIdsIn :
        LET o == libros_prestados_de(Bib, u)
        IN  /\ Effect(o)
            /\ res' = Result("libros_prestados_de", "", u, o)

Disponible ==
    \E i \in Isbns :
        LET o == disponible(Bib, i)
        IN  /\ Effect(o)
            /\ res' = Result("disponible", i, "", o)

Resumen ==
    LET o == resumen(Bib)
    IN  /\ Effect(o)
        /\ res' = Result("resumen", "", "", o)

Next ==
    \/ AnadirLibro
    \/ QuitarLibro
    \/ RegistrarUsuario
    \/ DarDeBajaUsuario
    \/ PrestarLibro
    \/ DevolverLibro
    \/ LibrosPrestadosDe
    \/ Disponible
    \/ Resumen

Spec == Init /\ [][Next]_vars

\* ------------------------------------------------------------------ search
\* Biblioteca.buscar_libros over a catalogue whose texts mix case and accents

\* the argument None of buscar_libros
None == <<"None">>

\* the books added to the catalogue that is searched
AutoresBusqueda == {<<"M">>, <<"M", "a'">>}
LibrosBusqueda ==
    {Libro(t, a, c, i) : t \in Titulos, a \in AutoresBusqueda, c \in Categorias, i \in Isbns}

\* the criteria passed to buscar_libros
TitulosBuscados == {None, <<" ">>, <<"O">>, <<"p">>}
AutoresBuscados == {None, <<" ", "m", " ">>, <<"m", "a">>, <<"M", "A'">>}
CategoriasBuscadas == {None, <<"e">>, <<"E", "E">>}

\* (x or ""): None and the empty text both give the empty text
OrEmpty(x) == IF x = None \/ x = <<>> THEN <<>> ELSE x

\* buscar_libros that keeps the books matching any one of the criteria
buscar_libros_any(b, titulo, autor, categoria) ==
    LET q_tit == StrLower(StrStrip(OrEmpty(titulo)))
        q_aut == StrLower(StrStrip(OrEmpty(autor)))
        q_cat == StrLower(StrStrip(OrEmpty(categoria)))
        match(lib) ==
            LET ok_t == IF q_tit # <<>> THEN StrIn(q_tit, StrLower(lib.meta[1])) ELSE TRUE
                ok_a == IF q_aut # <<>> THEN StrIn(q_aut, StrLower(lib.meta[2])) ELSE TRUE
                ok_c == IF q_cat # <<>> THEN StrIn(q_cat, StrLower(lib.categoria)) ELSE TRUE
            IN  ok_t \/ ok_a \/ ok_c
    IN  Return(b, SelectSeq(b.libros, match))

buscar_libros(b, titulo, autor, categoria) ==
    LET q_tit == StrLower(StrStrip(OrEmpty(titulo)))
        q_aut == StrLower(StrStrip(OrEmpty(autor)))
        q_cat == StrLower(StrStrip(OrEmpty(categoria)))
        match(lib) ==
            LET ok_t == IF q_tit # <<>> THEN StrIn(q_tit, StrLower(lib.meta[1])) ELSE TRUE
                ok_a == IF q_aut # <<>> THEN StrIn(q_aut, StrLower(lib.meta[2])) ELSE TRUE
                ok_c == IF q_cat # <<>> THEN StrIn(q_cat, StrLower(lib.categoria)) ELSE TRUE
            IN  ok_t /\ ok_a /\ ok_c
    IN  Return(b, SelectSeq(b.libros, match))

\* what the caller of op with the criteria q observes of outcome o
ResultBusqueda(op, isbn, q, o) ==
    [op |-> op, isbn |-> isbn, q |-> q, exc |-> o.exc, ret |-> o.ret]

AnadirLibroBusqueda ==
    \E libro \in LibrosBusqueda :
        LET o == anadir_libro(Bib, libro)
        IN  /\ Effect(o)
            /\ res' = ResultBusqueda("anadir_libro", libro.isbn, <<>>, o)

QuitarLibroBusqueda ==
    \E isbn \in Isbns :
        LET o == quitar_libro(Bib, isbn)
        IN  /\ Effect(o)
            /\ res' = ResultBusqueda("quitar_libro", isbn, <<>>, o)

BuscarLibros ==
    \E t \in TitulosBuscados, a \in AutoresBuscados, c \in CategoriasBuscadas :
        LET o == buscar_libros(Bib, t, a, c)
        IN  /\ Effect(o)
            /\ res' = ResultBusqueda("buscar_libros", "", <<t, a, c>>, o)

NextBusqueda ==
    \/ AnadirLibroBusqueda
    \/ QuitarLibroBusqueda
    \/ BuscarLibros

SpecBusqueda == Init /\ [][NextBusqueda]_vars

\* ------------------------------------------------------- failure kinds
\* the exceptions of Biblioteca under the names the specification gives them
DuplicateKey(r) ==
    /\ r.exc = "ValueError"
    /\ r.msg \in {"Ya existe un libro con ISBN", "El ID ya esta registrado."}

NotFound(r) == r.exc = "KeyError"

ItemLoaned(r) ==
    r.exc = "ValueError" /\ r.msg = "No se puede eliminar: el libro esta prestado."

HolderHasLoans(r) ==
    /\ r.exc = "ValueError"
    /\ r.msg = "No se puede dar de baja: el usuario tiene libros prestados."

AlreadyLoaned(r) ==
    r.exc = "ValueError" /\ r.msg = "El libro ya esta prestado al usuario"

NotLoaned(r) == r.exc = "ValueError" /\ r.msg = "Ese ISBN no esta prestado."

Ok(r) == r.exc = "none"

\* ------------------------------------------------------ indexed inventory
\* Inventario of "Parcial 2/Semana 11/Sistema Avanzado de Gestión de
\* Inventario.py": the product dict and the index by normalized name.

\* the constructor Producto(pid, nombre, cantidad, precio) raises ValueError:
\* dataclass __init__ and then __post_init__ run every setter, so the name
\* must be non-empty before and after its strip
ProductoRaises(pid, nombre, cantidad, precio) ==
    \/ pid = ""
    \/ nombre = <<>>
    \/ StrStrip(nombre) = <<>>
    \/ cantidad < 0
    \/ precio < 0

\* the object Producto(pid, nombre, cantidad, precio) when the constructor returns
Producto(pid, nombre, cantidad, precio) ==
    [pid |-> pid, nombre |-> StrStrip(nombre), cantidad |-> cantidad, precio |-> precio]

\* the products a caller can build and pass to agregar
ProductosIn ==
    {Producto(i, n, c, p) : i \in PidsIn,
                            n \in {x \in NombresIn : ~ProductoRaises("P", x, 0, 0)},
                            c \in {x \in CantidadesIn : x >= 0},
                            p \in {x \in PreciosIn : x >= 0}}

\* the inventory's fields as one value
Inv == [productos |-> productos, index_nombre |-> index_nombre]

\* keys of the dict _productos
ProdKeys(ps) == {ps[k].pid : k \in 1..Len(ps)}

\* position of pid among the entries of _productos
ProdPos(ps, pid) == CHOOSE k \in 1..Len(ps) : ps[k].pid = pid

\* _productos[pid]
ProdGet(ps, pid) == ps[ProdPos(ps, pid)]

\* _productos.pop(pid): the other entries keep their order
ProdDel(ps, pid) == SelectSeq(ps, LAMBDA p : p.pid # pid)

\* pid1 < pid2, for the ids of the pool
PidLt(p, q) ==
    (CHOOSE k \in DOMAIN PidPool : PidPool[k] = p) < (CHOOSE k \in DOMAIN PidPool : PidPool[k] = q)

\* the orders in which a set of pids can be iterated
Perms(S) ==
    {f \in [1..Cardinality(S) -> S] : \A j, k \in 1..Cardinality(S) : f[j] = f[k] => j = k}

\* items.sort(key=..., reverse=...): stable, lt[j, k] says that the key of
\* items[j] goes strictly before the key of items[k]
ListSort(items, lt) ==
    LET n == Len(items)
        pos(k) == 1 + Cardinality({j \in 1..n :
                          \/ lt[j, k]
                          \/ (~lt[k, j] /\ j < k)})
    IN  [p \in 1..n |-> items[CHOOSE k \in 1..n : pos(k) = p]]

index_add(idx, p) ==
    LET key == Norm(p.nombre)
        ids == IF key \in DOMAIN idx THEN idx[key] ELSE {}
    IN  DictSet(idx, key, ids \cup {p.pid})

\* _index_remove that leaves the emptied set under its key
index_remove_keeps_key(idx, p) ==
    LET key == Norm(p.nombre)
    IN  IF key \in DOMAIN idx /\ idx[key] # {}
        THEN DictSet(idx, key, idx[key] \ {p.pid})
        ELSE idx

index_remove(idx, p) ==
    LET key == Norm(p.nombre)
    IN  IF key \in DOMAIN idx /\ idx[key] # {}
        THEN IF idx[key] \ {p.pid} = {}
             THEN DictDel(idx, key)
             ELSE DictSet(idx, key, idx[key] \ {p.pid})
        ELSE idx

\* _index_update_nombre(p, nombre_anterior) on the inventory v, whose product
\* p already carries the new name
index_update_nombre(v, p, nombre_anterior) ==
    IF Norm(nombre_anterior) # Norm(p.nombre)
    THEN IF ProductoRaises(p.pid, nombre_anterior, p.cantidad, p.precio)
         THEN Raise(v, "ValueError", "Nombre debe ser una cadena no vacia.", "")
         ELSE LET pseudo == Producto(p.pid, nombre_anterior, p.cantidad, p.precio)
              IN  Return([v EXCEPT !.index_nombre =
                             index_add(index_remove(v.index_nombre, pseudo), p)],
                         NoRet)
    ELSE Return(v, NoRet)

agregar(v, p) ==
    IF p.pid \in ProdKeys(v.productos)
    THEN Raise(v, "KeyError", "Ya existe un producto con ID", p.pid)
    ELSE Return([productos |-> Append(v.productos, p),
                 index_nombre |-> index_add(v.index_nombre, p)],
                NoRet)

eliminar(v, pid) ==
    IF pid \notin ProdKeys(v.productos)
    THEN Raise(v, "KeyError", "No existe producto con ID", pid)
    ELSE LET p == ProdGet(v.productos, pid)
         IN  Return([productos |-> ProdDel(v.productos, pid),
                     index_nombre |-> index_remove(v.index_nombre, p)],
                    <<p>>)

obtener(v, pid) ==
    IF pid \notin ProdKeys(v.productos)
    THEN Raise(v, "KeyError", "No existe producto con ID", pid)
    ELSE Return(v, <<ProdGet(v.productos, pid)>>)

actualizar_cantidad(v, pid, nueva_cantidad) ==
    IF ~Ok(obtener(v, pid))
    THEN obtener(v, pid)
    ELSE IF nueva_cantidad < 0
    THEN Raise(v, "ValueError", "Cantidad debe ser un entero >= 0.", "")
    ELSE Return([v EXCEPT !.productos[ProdPos(v.productos, pid)].cantidad = nueva_cantidad],
                NoRet)

actualizar_precio(v, pid, nuevo_precio) ==
    IF ~Ok(obtener(v, pid))
    THEN obtener(v, pid)
    ELSE IF nuevo_precio < 0
    THEN Raise(v, "ValueError", "Precio debe ser un numero >= 0.", "")
    ELSE Return([v EXCEPT !.productos[ProdPos(v.productos, pid)].precio = nuevo_precio],
                NoRet)

actualizar_nombre(v, pid, nuevo_nombre) ==
    IF ~Ok(obtener(v, pid))
    THEN obtener(v, pid)
    ELSE IF nuevo_nombre = <<>>
    THEN Raise(v, "ValueError", "Nombre debe ser una cadena no vacia.", "")
    ELSE LET k == ProdPos(v.productos, pid)
             nombre_prev == v.productos[k].nombre
             renamed == [v EXCEPT !.productos[k].nombre = StrStrip(nuevo_nombre)]
         IN  index_update_nombre(renamed, renamed.productos[k], nombre_prev)

\* the set of pids that buscar_por_nombre(consulta) iterates, if any
Bucket(v, consulta) ==
    IF Norm(consulta) \in DOMAIN v.index_nombre THEN v.index_nombre[Norm(consulta)] ELSE {}

\* buscar_por_nombre(consulta) when the set of pids iterates in the order ids
buscar_por_nombre(v, consulta, ids) ==
    LET q == Norm(consulta)
    IN  IF q \in DOMAIN v.index_nombre
        THEN IF \E k \in 1..Len(ids) : ids[k] \notin ProdKeys(v.productos)
             THEN Raise(v, "KeyError", "_productos[i]",
                        ids[CHOOSE k \in 1..Len(ids) :
                                /\ ids[k] \notin ProdKeys(v.productos)
                                /\ \A j \in 1..(k - 1) : ids[j] \in ProdKeys(v.productos)])
             ELSE Return(v, [k \in 1..Len(ids) |-> ProdGet(v.productos, ids[k])])
        ELSE Return(v, SelectSeq(v.productos, LAMBDA p : StrIn(q, Norm(p.nombre))))

listar_todos(v, orden) ==
    LET items == v.productos
        n == Len(items)
    IN  IF orden = "id"
        THEN Return(v, ListSort(items,
                 [j \in 1..n, k \in 1..n |-> PidLt(items[j].pid, items[k].pid)]))
        ELSE IF orden = "cantidad"
        THEN Return(v, ListSort(items,
                 [j \in 1..n, k \in 1..n |-> items[j].cantidad > items[k].cantidad]))
        ELSE IF orden = "precio"
        THEN Return(v, ListSort(items,
                 [j \in 1..n, k \in 1..n |-> items[j].precio > items[k].precio]))
        ELSE Return(v, ListSort(items,
                 [j \in 1..n, k \in 1..n |->
                     StrLt(Norm(items[j].nombre), Norm(items[k].nombre))]))

\* the inventory's fields after a call with outcome o
EffectInv(o) ==
    /\ productos' = o.st.productos
    /\ index_nombre' = o.st.index_nombre
    /\ UNCHANGED <<libros, user_ids, usuarios, prestamos, agenda_items, archivo, lista_productos>>

\* what the caller of op on pid observes of outcome o
ResultInv(op, pid, o) ==
    [op |-> op, pid |-> pid, exc |-> o.exc, ret |-> o.ret]

Agregar ==
    \E p \in ProductosIn :
        LET o == agregar(Inv, p)
        IN  /\ EffectInv(o)
            /\ res' = ResultInv("agregar", p.pid, o)

Eliminar ==
    \E i \in PidsIn :
        LET o == eliminar(Inv, i)
        IN  /\ EffectInv(o)
            /\ res' = ResultInv("eliminar", i, o)

ActualizarCantidad ==
    \E i \in PidsIn, c \in CantidadesIn :
        LET o == actualizar_cantidad(Inv, i, c)
        IN  /\ EffectInv(o)
            /\ res' = ResultInv("actualizar_cantidad", i, o)

ActualizarPrecio ==
    \E i \in PidsIn, c \in PreciosIn :
        LET o == actualizar_precio(Inv, i, c)
        IN  /\ EffectInv(o)
            /\ res' = ResultInv("actualizar_precio", i, o)

ActualizarNombre ==
    \E i \in PidsIn, n \in NombresIn :
        LET o == actualizar_nombre(Inv, i, n)
        IN  /\ EffectInv(o)
            /\ res' = ResultInv("actualizar_nombre", i, o)

BuscarPorNombre ==
    \E q \in ConsultasIn : \E iter \in Perms(Bucket(Inv, q)) :
        LET o == buscar_por_nombre(Inv, q, iter)
        IN  /\ EffectInv(o)
            /\ res' = ResultInv("buscar_por_nombre", "", o)

ListarTodos ==
    \E orden \in OrdenesIn :
        LET o == listar_todos(Inv, orden)
        IN  /\ EffectInv(o)
            /\ res' = ResultInv("listar_todos", "", o)

NextInv ==
    \/ Agregar
    \/ Eliminar
    \/ ActualizarCantidad
    \/ ActualizarPrecio
    \/ ActualizarNombre
    \/ BuscarPorNombre
    \/ ListarTodos

SpecInv == Init /\ [][NextInv]_vars

\* ------------------------------------------------------------------ agenda
\* Agenda of "Parcial 2/Semana 14/Componentes y Contenedores.py"

\* the decimal digits
DigitOf ==
    [c \in {"0", "1", "2", "3", "4", "5", "6", "7", "8", "9"} |->
        CharRank[c] - CharRank["0"]]

\* s is one or two decimal digits
IsNum(s) == Len(s) \in {1, 2} /\ \A k \in 1..Len(s) : s[k] \in DOMAIN DigitOf

\* int(s), for a text of digits
RECURSIVE NumOf(_)
NumOf(s) ==
    IF s = <<>> THEN 0
    ELSE 10 * NumOf(SubSeq(s, 1, Len(s) - 1)) + DigitOf[s[Len(s)]]

\* the days of month m of year y
DaysIn(y, m) ==
    IF m = 2
    THEN IF (y % 4 = 0 /\ y % 100 # 0) \/ y % 400 = 0 THEN 29 ELSE 28
    ELSE IF m \in {4, 6, 9, 11} THEN 30 ELSE 31

\* es_fecha(s): datetime.strptime(s, "%Y-%m-%d") returns. %Y takes four
\* digits, %m one or two digits from 1 to 12, %d one or two digits (or a space
\* and a digit) from 1 to 31, the whole text must match, and the date must
\* exist
es_fecha(s) ==
    /\ Len(s) >= 8
    /\ \A k \in 1..4 : s[k] \in DOMAIN DigitOf
    /\ s[5] = "-"
    /\ \E k \in {7, 8} :
          /\ k < Len(s)
          /\ s[k] = "-"
          /\ LET y == NumOf(SubSeq(s, 1, 4))
                 mes == SubSeq(s, 6, k - 1)
                 raw == SubSeq(s, k + 1, Len(s))
                 dia == IF Len(raw) = 2 /\ raw[1] = " " THEN SubSeq(raw, 2, 2) ELSE raw
             IN  /\ y >= 1
                 /\ IsNum(mes)
                 /\ NumOf(mes) \in 1..12
                 /\ IsNum(dia)
                 /\ NumOf(dia) >= 1
                 /\ Len(raw) = 2 /\ raw[1] = " " => NumOf(dia) <= 9
                 /\ NumOf(dia) <= DaysIn(y, NumOf(mes))

\* es_hora(s): datetime.strptime(s, "%H:%M") returns. %H takes one or two
\* digits up to 23, %M one or two digits up to 59
es_hora(s) ==
    \E k \in {2, 3} :
        /\ k < Len(s)
        /\ s[k] = ":"
        /\ LET hh == SubSeq(s, 1, k - 1)
               mm == SubSeq(s, k + 1, Len(s))
           IN  /\ IsNum(hh)
               /\ NumOf(hh) <= 23
               /\ IsNum(mm)
               /\ NumOf(mm) <= 59

\* Evento(fecha, hora, descripcion)
Evento(f, h, d) == [fecha |-> f, hora |-> h, descripcion |-> d]

\* the sort key (e.fecha, e.hora, e.descripcion) of a is less than that of b
EventoLt(a, b) ==
    \/ StrLt(a.fecha, b.fecha)
    \/ a.fecha = b.fecha /\ StrLt(a.hora, b.hora)
    \/ a.fecha = b.fecha /\ a.hora = b.hora /\ StrLt(a.descripcion, b.descripcion)

\* Mutant of agenda_agregar: the event is appended and the list is not sorted.
agenda_agregar_unsorted(its, f, h, d) ==
    IF f = <<>> \/ h = <<>> \/ d = <<>>
    THEN Raise(its, "ValueError", "Faltan datos", "")
    ELSE IF ~es_fecha(f)
    THEN Raise(its, "ValueError", "Fecha invalida (YYYY-MM-DD)", "")
    ELSE IF ~es_hora(h)
    THEN Raise(its, "ValueError", "Hora invalida (HH:MM)", "")
    ELSE Return(Append(its, Evento(f, h, d)), NoRet)

\* Agenda.agregar(f, h, d) on the list its
agenda_agregar(its, f, h, d) ==
    IF f = <<>> \/ h = <<>> \/ d = <<>>
    THEN Raise(its, "ValueError", "Faltan datos", "")
    ELSE IF ~es_fecha(f)
    THEN Raise(its, "ValueError", "Fecha invalida (YYYY-MM-DD)", "")
    ELSE IF ~es_hora(h)
    THEN Raise(its, "ValueError", "Hora invalida (HH:MM)", "")
    ELSE LET added == Append(its, Evento(f, h, d))
             n == Len(added)
         IN  Return(ListSort(added, [j \in 1..n, k \in 1..n |-> EventoLt(added[j], added[k])]),
                    NoRet)
\* sorted(set(idxs), reverse=True)
RECURSIVE SortedDesc(_)
SortedDesc(S) ==
    IF S = {} THEN <<>>
    ELSE LET m == CHOOSE x \in S : \A y \in S : y <= x
         IN  <<m>> \o SortedDesc(S \ {m})

\* del its[i], i counted from 0
ListDel(its, i) == SubSeq(its, 1, i) \o SubSeq(its, i + 2, Len(its))

\* the loop of eliminar_indices over the indices of order, n removed so far
RECURSIVE eliminar_loop(_, _, _)
eliminar_loop(its, order, n) ==
    IF order = <<>> THEN Return(its, n)
    ELSE LET i == Head(order)
         IN  IF 0 <= i /\ i < Len(its)
             THEN eliminar_loop(ListDel(its, i), Tail(order), n + 1)
             ELSE eliminar_loop(its, Tail(order), n)

\* Mutant of eliminar_indices: the indices are visited in ascending order.
eliminar_indices_ascending(its, idxs) ==
    LET desc == SortedDesc({idxs[k] : k \in 1..Len(idxs)})
    IN  eliminar_loop(its, [k \in 1..Len(desc) |-> desc[Len(desc) + 1 - k]], 0)

\* Agenda.eliminar_indices(idxs) on the list its
eliminar_indices(its, idxs) ==
    eliminar_loop(its, SortedDesc({idxs[k] : k \in 1..Len(idxs)}), 0)

\* texts handed to Agenda.agregar as fecha
FechasIn ==
    { <<"2", "0", "2", "5", "-", "0", "1", "-", "0", "2">>,
      <<"2", "0", "2", "4", "-", "0", "2", "-", "2", "9">>,
      <<"2", "0", "2", "5", "-", "0", "2", "-", "2", "9">>,
      <<"2", "0", "2", "5", "-", "1", "3", "-", "0", "1">>,
      <<"2", "0", "2", "5", "-", "1", "-", "5">>,
      <<>> }

\* texts handed to Agenda.agregar as hora
HorasIn ==
    { <<"0", "8", ":", "0", "0">>,
      <<"2", "4", ":", "0", "0">>,
      <<"8", ":", "5">>,
      <<>> }

\* texts handed to Agenda.agregar as descripcion
DescripcionesIn == { <<"A">>, <<>> }

\* index lists handed to Agenda.eliminar_indices
IdxsIn ==
    { <<>>, <<0>>, <<0, 0>>, <<0, 1>>, <<2, 0>>, <<-1, MaxEventos>>, <<1, MaxEventos + 2, 1>> }

\* cur.index(v): the first position of its, counted from 0, that holds v
IndexOf(its, v) ==
    CHOOSE k \in 0..(Len(its) - 1) :
        its[k + 1] = v /\ \A j \in 0..(k - 1) : its[j + 1] # v

\* App.rm() confirmed with the rows of sel selected, the tree showing its: row
\* r shows the values of its[r], and each selected row is turned into the
\* first index at which its values are found
rm(its, sel) ==
    IF sel = <<>> THEN Return(its, NoRet)
    ELSE Return(eliminar_indices(its, [k \in 1..Len(sel) |-> IndexOf(its, its[sel[k] + 1])]).st,
                NoRet)

\* the selections of a tree of n rows: the selected rows, counted from 0, in
\* the order of the tree
SelsIn(n) ==
    {[k \in 1..Cardinality(S) |-> SortedDesc(S)[Cardinality(S) + 1 - k]] : S \in SUBSET (0..(n - 1))}

\* the agenda takes the list an outcome leaves
EffectAgenda(o) ==
    /\ agenda_items' = o.st
    /\ UNCHANGED <<libros, user_ids, usuarios, prestamos, productos, index_nombre,
                   archivo, lista_productos>>

\* what a call on the agenda left behind
ResultAgenda(op, args, o) ==
    [op |-> op, args |-> args, exc |-> o.exc, msg |-> o.msg, ret |-> o.ret]

AgendaAgregar ==
    \E f \in FechasIn, h \in HorasIn, d \in DescripcionesIn :
        LET o == agenda_agregar(agenda_items, f, h, d)
        IN  /\ Len(agenda_items) < MaxEventos
            /\ EffectAgenda(o)
            /\ res' = ResultAgenda("agregar", <<f, h, d>>, o)

AgendaEliminarIndices ==
    \E idxs \in IdxsIn :
        LET o == eliminar_indices(agenda_items, idxs)
        IN  /\ EffectAgenda(o)
            /\ res' = ResultAgenda("eliminar_indices", idxs, o)

AppRm ==
    \E sel \in SelsIn(Len(agenda_items)) :
        LET o == rm(agenda_items, sel)
        IN  /\ EffectAgenda(o)
            /\ res' = ResultAgenda("rm", sel, o)

NextAgenda ==
    \/ AgendaAgregar
    \/ AgendaEliminarIndices
    \/ AppRm

SpecAgenda == Init /\ [][NextAgenda]_vars

\* ----------------------------------------------------- list-backed inventory
\* Inventario of "Parcial 2/Semana 10/Sistema de Gestion de Inventarios
\* Mejorado.py": the list-backed Inventario of "Parcial 01/Semana 9/
\* EstructuraDeDatos.py" with a file saved after every change.  An id and a
\* name are texts, a cantidad is an integer, a precio is a number of cents.

\* the character of a decimal digit
DigitChar(n) == CHOOSE c \in DOMAIN DigitOf : DigitOf[c] = n

\* str(n), for n >= 0
RECURSIVE NumText(_)
NumText(n) == IF n < 10 THEN <<DigitChar(n)>> ELSE Append(NumText(n \div 10), DigitChar(n % 10))

\* s is a non-empty text of decimal digits
AllDigits(s) == s # <<>> /\ \A k \in 1..Len(s) : s[k] \in DOMAIN DigitOf

\* int(s): surrounding blanks are dropped, then an optional sign and digits
IntParse(s) ==
    LET t == StrStrip(s)
        neg == t # <<>> /\ Head(t) = "-"
        body == IF neg THEN Tail(t) ELSE t
    IN  IF AllDigits(body)
        THEN [ok |-> TRUE, val |-> IF neg THEN 0 - NumOf(body) ELSE NumOf(body)]
        ELSE [ok |-> FALSE, val |-> 0]

\* the position of the first point of s, or 0
DotPos(s) ==
    IF \E k \in 1..Len(s) : s[k] = "."
    THEN CHOOSE k \in 1..Len(s) : s[k] = "." /\ \A j \in 1..(k - 1) : s[j] # "."
    ELSE 0

\* float(s), in cents, for the texts with at most two decimals: surrounding
\* blanks are dropped, then an optional sign, digits, and an optional point
\* with one or two digits
FloatParse(s) ==
    LET t == StrStrip(s)
        neg == t # <<>> /\ Head(t) = "-"
        body == IF neg THEN Tail(t) ELSE t
        k == DotPos(body)
        entero == IF k = 0 THEN body ELSE SubSeq(body, 1, k - 1)
        dec == IF k = 0 THEN <<>> ELSE SubSeq(body, k + 1, Len(body))
    IN  IF AllDigits(entero) /\ (k = 0 \/ (AllDigits(dec) /\ Len(dec) <= 2))
        THEN [ok |-> TRUE,
              val |-> (IF neg THEN -1 ELSE 1)
                        * (100 * NumOf(entero)
                             + (IF Len(dec) = 1 THEN 10 * NumOf(dec) ELSE NumOf(dec)))]
        ELSE [ok |-> FALSE, val |-> 0]

\* f"{precio:.2f}", for a precio in cents
FormatPrecio(c) ==
    NumText(c \div 100) \o <<".">> \o <<DigitChar((c % 100) \div 10), DigitChar(c % 10)>>

\* Producto.cantidad = value
set_cantidad(p, value) ==
    IF value < 0
    THEN Raise(p, "ValueError", "La cantidad no puede ser negativa.", "")
    ELSE Return([p EXCEPT !.cantidad = value], NoRet)

\* Producto.precio = value
set_precio(p, value) ==
    IF value < 0
    THEN Raise(p, "ValueError", "El precio no puede ser negativo.", "")
    ELSE Return([p EXCEPT !.precio = value], NoRet)

\* Producto(pid, nombre, cantidad, precio) of the list-backed inventory
ProductoLista(pid, nombre, cantidad, precio) ==
    LET p == [id |-> StrStrip(pid), nombre |-> StrStrip(nombre), cantidad |-> 0, precio |-> 0]
    IN  IF StrStrip(pid) = <<>>
        THEN Raise(p, "ValueError", "El ID no puede estar vacio.", "")
        ELSE IF StrStrip(nombre) = <<>>
        THEN Raise(p, "ValueError", "El nombre no puede estar vacio.", "")
        ELSE LET c == set_cantidad(p, cantidad)
             IN  IF ~Ok(c) THEN c ELSE set_precio(c.st, precio)

\* Producto.from_row(row)
from_row(row) ==
    LET c == IntParse(row.cantidad)
        f == FloatParse(row.precio)
    IN  IF ~c.ok \/ ~f.ok
        THEN Raise(row, "ValueError", "Fila invalida en archivo", "")
        ELSE LET o == ProductoLista(StrStrip(row.id), StrStrip(row.nombre), c.val, f.val)
             IN  IF Ok(o) THEN Return(row, o.st)
                 ELSE Raise(row, "ValueError", "Fila invalida en archivo", "")

\* the row guardar_en_archivo writes for a product
to_row(p) ==
    [id |-> p.id, nombre |-> p.nombre, cantidad |-> NumText(p.cantidad),
     precio |-> FormatPrecio(p.precio)]

\* the list-backed inventory and its file as one value
Lista == [productos |-> lista_productos, archivo |-> archivo]

\* _buscar_idx_por_id(pid): the position of the first product with this id,
\* counted from 1, or 0 for None
buscar_idx_por_id(prods, pid) ==
    IF \E k \in 1..Len(prods) : prods[k].id = pid
    THEN CHOOSE k \in 1..Len(prods) :
             prods[k].id = pid /\ \A j \in 1..(k - 1) : prods[j].id # pid
    ELSE 0

\* obtener_por_id(pid) is not None
obtener_por_id(prods, pid) == buscar_idx_por_id(prods, pid) # 0

\* guardar_en_archivo(): the file holds one row per product
guardar_en_archivo(v) ==
    Return([v EXCEPT !.archivo =
               [existe |-> TRUE,
                filas |-> [k \in 1..Len(v.productos) |-> to_row(v.productos[k])]]],
           NoRet)

\* the loop of cargar_desde_archivo over the rows still to read: prods is the
\* list so far, warns the number of rows omitted for a repeated id
RECURSIVE cargar_loop(_, _, _)
cargar_loop(prods, filas, warns) ==
    IF filas = <<>>
    THEN [productos |-> prods, estado |-> "OK", warns |-> warns]
    ELSE LET o == from_row(Head(filas))
         IN  IF ~Ok(o)
             THEN [productos |-> prods, estado |-> "ERROR", warns |-> warns]
             ELSE IF ~obtener_por_id(prods, o.ret.id)
             THEN cargar_loop(Append(prods, o.ret), Tail(filas), warns)
             ELSE cargar_loop(prods, Tail(filas), warns + 1)

\* cargar_desde_archivo(): returns normally in every case; what it prints
\* ([INFO], [OK] or [ERROR], and one [WARN] per omitted row) is the result
cargar_desde_archivo(v) ==
    IF ~v.archivo.existe
    THEN Return(v, [estado |-> "INFO", warns |-> 0])
    ELSE LET l == cargar_loop(<<>>, v.archivo.filas, 0)
         IN  Return([v EXCEPT !.productos = l.productos],
                    [estado |-> l.estado, warns |-> l.warns])

\* Mutant of lista_agregar: the product is appended without the test for its id.
lista_agregar_unchecked(v, producto) ==
    guardar_en_archivo([v EXCEPT !.productos = Append(@, producto)])

\* agregar(producto) of the list-backed inventory
lista_agregar(v, producto) ==
    IF obtener_por_id(v.productos, producto.id)
    THEN Raise(v, "ValueError", "Ya existe un producto con ID", producto.id)
    ELSE guardar_en_archivo([v EXCEPT !.productos = Append(@, producto)])

\* eliminar(pid) of the list-backed inventory
lista_eliminar(v, pid) ==
    LET idx == buscar_idx_por_id(v.productos, pid)
    IN  IF idx = 0 THEN Return(v, FALSE)
        ELSE Return(guardar_en_archivo([v EXCEPT !.productos = ListDel(@, idx - 1)]).st, TRUE)

\* actualizar(pid, cantidad=..., precio=...): an argument is <<>> for None or
\* the one-element sequence of its value
lista_actualizar(v, pid, cantidad, precio) ==
    LET idx == buscar_idx_por_id(v.productos, pid)
    IN  IF idx = 0 THEN Return(v, FALSE)
        ELSE LET c == IF cantidad # <<>> THEN set_cantidad(v.productos[idx], cantidad[1])
                      ELSE Return(v.productos[idx], NoRet)
                 p == IF precio # <<>> THEN set_precio(c.st, precio[1])
                      ELSE Return(c.st, NoRet)
             IN  IF ~Ok(c) THEN Raise(v, c.exc, c.msg, "")
                 ELSE IF ~Ok(p)
                 THEN Raise([v EXCEPT !.productos[idx] = c.st], p.exc, p.msg, "")
                 ELSE Return(guardar_en_archivo([v EXCEPT !.productos[idx] = p.st]).st, TRUE)

\* buscar_por_nombre(consulta) of the list-backed inventory
lista_buscar_por_nombre(v, consulta) ==
    LET q == StrStrip(StrLower(consulta))
    IN  Return(v, SelectSeq(v.productos, LAMBDA p : StrIn(q, StrLower(p.nombre))))

\* listar_todos() of the list-backed inventory
lista_listar_todos(v) == Return(v, v.productos)

\* ids typed for a product
IdsLista == {<<DigitChar(k)>> : k \in 1..NumPids}

\* products handed to agregar
ProductosListaIn == {ProductoLista(i, <<"A", "b">>, 0, 0).st : i \in IdsLista}

\* values handed to actualizar as cantidad: None, a negative and a valid one
CantidadesListaIn == {<<>>, <<-1>>, <<1>>}

\* values handed to actualizar as precio: None, a negative and a valid one
PreciosListaIn == {<<>>, <<-1>>, <<0>>}

\* rows found in a file written outside the program
FilaBuena(i) == [id |-> i, nombre |-> <<"A", "b">>, cantidad |-> <<"2">>, precio |-> <<"0", ".", "5", "0">>]

\* contents of a file written outside the program: empty, two products (one
\* id with a trailing blank), the same id twice, and a row whose cantidad is
\* no number after a good one
FilasIn ==
    { <<>>,
      <<FilaBuena(<<"1">>), FilaBuena(<<"2", " ">>)>>,
      <<FilaBuena(<<"1">>), [FilaBuena(<<"1">>) EXCEPT !.cantidad = <<"0">>]>>,
      <<FilaBuena(<<"2">>), [FilaBuena(<<"1">>) EXCEPT !.cantidad = <<"A">>]>> }

\* the inventory and its file take what an outcome leaves
EffectLista(o) ==
    /\ lista_productos' = o.st.productos
    /\ archivo' = o.st.archivo
    /\ UNCHANGED <<libros, user_ids, usuarios, prestamos, productos, index_nombre,
                   agenda_items>>

\* what a call on the list-backed inventory left behind
ResultLista(op, args, o) == [op |-> op, args |-> args, exc |-> o.exc, ret |-> o.ret]

ListaAgregar ==
    \E p \in ProductosListaIn :
        LET o == lista_agregar(Lista, p)
        IN  /\ EffectLista(o)
            /\ res' = ResultLista("agregar", <<p.id>>, o)

ListaEliminar ==
    \E i \in IdsLista :
        LET o == lista_eliminar(Lista, i)
        IN  /\ EffectLista(o)
            /\ res' = ResultLista("eliminar", <<i>>, o)

ListaActualizar ==
    \E i \in IdsLista, c \in CantidadesListaIn, p \in PreciosListaIn :
        LET o == lista_actualizar(Lista, i, c, p)
        IN  /\ EffectLista(o)
            /\ res' = ResultLista("actualizar", <<i, c, p>>, o)

ListaBuscarPorNombre ==
    \E q \in ConsultasIn :
        LET o == lista_buscar_por_nombre(Lista, q)
        IN  /\ EffectLista(o)
            /\ res' = ResultLista("buscar_por_nombre", <<q>>, o)

ListaListarTodos ==
    LET o == lista_listar_todos(Lista)
    IN  /\ EffectLista(o)
        /\ res' = ResultLista("listar_todos", <<>>, o)

CargarDesdeArchivo ==
    LET o == cargar_desde_archivo(Lista)
    IN  /\ EffectLista(o)
        /\ res' = ResultLista("cargar_desde_archivo", <<>>, o)

GuardarEnArchivo ==
    LET o == guardar_en_archivo(Lista)
    IN  /\ EffectLista(o)
        /\ res' = ResultLista("guardar_en_archivo", <<>>, o)

\* the file is written outside the program
ArchivoExterno ==
    \E filas \in FilasIn :
        /\ archivo' = [existe |-> TRUE, filas |-> filas]
        /\ res' = [op |-> "archivo", args |-> <<>>, exc |-> "none", ret |-> NoRet]
        /\ UNCHANGED <<libros, user_ids, usuarios, prestamos, productos, index_nombre,
                       agenda_items, lista_productos>>

NextLista ==
    \/ ListaAgregar
    \/ ListaEliminar
    \/ ListaActualizar
    \/ ListaBuscarPorNombre
    \/ ListaListarTodos
    \/ CargarDesdeArchivo
    \/ GuardarEnArchivo
    \/ ArchivoExterno

SpecLista == Init /\ [][NextLista]_vars

\* --------------------------------------- persistence of the indexed inventory
\* guardar and cargar of "Parcial 2/Semana 11/Sistema Avanzado de Gestion de
\* Inventario.py".  The file is a JSON object, here the sequence of its
\* members in the order written; pid, nombre and precio are JSON values read
\* back as written, cantidad is written in decimal digits.

\* Producto.to_dict() as json.dump writes it
to_dict(p) ==
    [pid |-> p.pid, nombre |-> p.nombre, cantidad |-> NumText(p.cantidad), precio |-> p.precio]

\* Producto.from_dict(d) for a member json.load read: the constructor runs
\* every setter again
from_dict(d) ==
    LET c == IntParse(d.cantidad)
    IN  IF ~c.ok \/ ProductoRaises(d.pid, d.nombre, c.val, d.precio)
        THEN Raise(d, "ValueError", "Producto", "")
        ELSE Return(d, Producto(d.pid, d.nombre, c.val, d.precio))

\* guardar(): the file holds one member per product, keyed by its key in
\* _productos, which is the pid of the product
guardar(v) ==
    [existe |-> TRUE,
     filas |-> [k \in 1..Len(v.productos) |->
                   [key |-> v.productos[k].pid, pdict |-> to_dict(v.productos[k])]]]

\* the loop of cargar over the members still to read, inv being the inventory
\* built so far
RECURSIVE cargar_members(_, _)
cargar_members(inv, members) ==
    IF members = <<>> THEN Return(inv, NoRet)
    ELSE LET o == from_dict(Head(members).pdict)
         IN  IF ~Ok(o) THEN Raise(inv, o.exc, o.msg, "")
             ELSE cargar_members(
                      [productos |-> Append(ProdDel(inv.productos, Head(members).key), o.ret),
                       index_nombre |-> index_add(inv.index_nombre, o.ret)],
                      Tail(members))

\* Inventario.cargar(): the inventory read from the file f, or the exception
\* the constructor of a product raised
cargar(f) ==
    IF ~f.existe
    THEN Return([productos |-> <<>>, index_nombre |-> <<>>], NoRet)
    ELSE cargar_members([productos |-> <<>>, index_nombre |-> <<>>], f.filas)

\* option 8 of the menu: inventario.guardar(ruta_archivo)
Guardar ==
    /\ archivo' = guardar(Inv)
    /\ res' = [op |-> "guardar", pid |-> "", exc |-> "none", ret |-> NoRet]
    /\ UNCHANGED <<libros, user_ids, usuarios, prestamos, productos, index_nombre,
                   agenda_items, lista_productos>>

\* option 9 of the menu: inventario = Inventario.cargar(ruta_archivo); an
\* exception leaves the inventory at hand
Cargar ==
    LET o == cargar(archivo)
    IN  /\ EffectInv(IF Ok(o) THEN o ELSE Raise(Inv, o.exc, o.msg, ""))
        /\ res' = ResultInv("cargar", "", o)

NextPersistencia ==
    \/ Agregar
    \/ Eliminar
    \/ ActualizarNombre
    \/ Guardar
    \/ Cargar

SpecPersistencia == Init /\ [][NextPersistencia]_vars

\* ------------------------------------------------------------- properties
\* the ISBNs whose loan entry maps to holder h
LoanedTo(h) == {i \in DOMAIN prestamos : prestamos[i] = h}

\* the elements of a list
Elems(xs) == {xs[k] : k \in 1..Len(xs)}

RECURSIVE SumHeld(_)
\* the total length of the prestados lists of the holders hs
SumHeld(hs) ==
    IF hs = {} THEN 0
    ELSE LET h == CHOOSE x \in hs : TRUE
         IN  Len(usuarios[h].prestados) + SumHeld(hs \ {h})

\* C1: in every reachable state the loan mapping has one holder per loaned
\* item, every loaned ISBN is an ISBN of the catalogue and every holder of a
\* loan is a registered user.
C1_LoanIntegrity ==
    /\ DOMAIN prestamos \subseteq LibroKeys(libros)
    /\ \A i \in DOMAIN prestamos :
          /\ prestamos[i] \in DOMAIN usuarios
          /\ prestamos[i] \in user_ids
          /\ Cardinality({h \in UserIdsIn : prestamos[i] = h}) = 1
    /\ Cardinality(LibroKeys(libros)) = Len(libros)

\* C1 witness: a removal of a loaned book was attempted and rejected
C1_Witness ==
    /\ res.op = "quitar_libro"
    /\ res.isbn \in DOMAIN prestamos
    /\ ItemLoaned(res)

\* C2: in every reachable state, each registered holder's prestados list holds
\* exactly the ISBNs whose loan entry maps to that holder, each once;
\* libros_prestados_de lists the books of exactly those ISBNs; and the lengths
\* of all prestados lists add up to the number of loan entries.
C2_HeldViewMatchesLoans ==
    /\ \A h \in DOMAIN usuarios :
          /\ Elems(usuarios[h].prestados) = LoanedTo(h)
          /\ Len(usuarios[h].prestados) = Cardinality(LoanedTo(h))
          /\ LET o == libros_prestados_de(Bib, h)
             IN  /\ Ok(o)
                 /\ Len(o.ret) = Cardinality(LoanedTo(h))
                 /\ {o.ret[k].isbn : k \in 1..Len(o.ret)} = LoanedTo(h)
    /\ SumHeld(DOMAIN usuarios) = Cardinality(DOMAIN prestamos)

\* C2 witness: a holder of two loans was asked for its books and got two
C2_Witness ==
    /\ res.op = "libros_prestados_de"
    /\ Len(res.ret) = 2
    /\ Cardinality(DOMAIN prestamos) = 2

\* C3: in every reachable state, quitar_libro of a catalogue book that is on
\* loan raises the "book is on loan" error and changes nothing; of a catalogue
\* book that is not on loan it returns and only that book is gone from the
\* catalogue; and a book that is lent and then returned can be removed.
C3_RemoveItem ==
    /\ \A i \in LibroKeys(libros) :
          LET o == quitar_libro(Bib, i)
          IN  IF i \in DOMAIN prestamos
              THEN ItemLoaned(o) /\ o.st = Bib
              ELSE /\ Ok(o)
                   /\ i \notin LibroKeys(o.st.libros)
                   /\ LibroKeys(o.st.libros) = LibroKeys(libros) \ {i}
                   /\ Len(o.st.libros) = Len(libros) - 1
    /\ \A i \in LibroKeys(libros) \ DOMAIN prestamos, h \in DOMAIN usuarios :
          LET lent == prestar_libro(Bib, i, h)
              refused == quitar_libro(lent.st, i)
              back == devolver_libro(lent.st, i)
              gone == quitar_libro(back.st, i)
          IN  /\ Ok(lent) /\ ItemLoaned(refused) /\ Ok(back) /\ Ok(gone)
              /\ i \notin LibroKeys(gone.st.libros)
    /\ (res.op = "quitar_libro" /\ Ok(res)) => res.isbn \notin LibroKeys(libros)
    /\ (res.op = "quitar_libro" /\ ItemLoaned(res)) => res.isbn \in LibroKeys(libros)

\* C3 witness: a book not on loan was removed while another book is on loan
C3_Witness ==
    /\ res.op = "quitar_libro"
    /\ Ok(res)
    /\ res.isbn \notin LibroKeys(libros)
    /\ prestamos # <<>>

\* C4: in every reachable state, dar_de_baja_usuario of a registered id raises
\* the "user has loans" error exactly when some loan entry maps to that user,
\* which is exactly when libros_prestados_de is non-empty; otherwise it returns
\* and the user is no longer registered.
C4_DeregisterHolder ==
    /\ \A h \in DOMAIN usuarios :
          LET o == dar_de_baja_usuario(Bib, h)
          IN  /\ HolderHasLoans(o) <=> (LoanedTo(h) # {})
              /\ HolderHasLoans(o) <=> (libros_prestados_de(Bib, h).ret # <<>>)
              /\ HolderHasLoans(o) => o.st = Bib
              /\ ~HolderHasLoans(o) =>
                    /\ Ok(o)
                    /\ h \notin DOMAIN o.st.usuarios
                    /\ h \notin o.st.user_ids
                    /\ DOMAIN o.st.usuarios = DOMAIN usuarios \ {h}
                    /\ o.st.libros = libros
                    /\ o.st.prestamos = prestamos
    /\ (res.op = "dar_de_baja_usuario" /\ Ok(res)) => res.uid \notin DOMAIN usuarios

\* C4 witness: a holder with a loan was refused deregistration
C4_Witness ==
    /\ res.op = "dar_de_baja_usuario"
    /\ HolderHasLoans(res)
    /\ res.uid \in DOMAIN usuarios
    /\ LoanedTo(res.uid) # {}

\* every call whose preconditions hold in manager state b succeeds
ValidCallsSucceed(b) ==
    /\ \A l \in LibrosIn :
          l.isbn \notin LibroKeys(b.libros) => Ok(anadir_libro(b, l))
    /\ \A i \in LibroKeys(b.libros) :
          /\ Ok(disponible(b, i))
          /\ i \notin DOMAIN b.prestamos => Ok(quitar_libro(b, i))
          /\ \A h \in DOMAIN b.usuarios :
                i \notin DOMAIN b.prestamos => Ok(prestar_libro(b, i, h))
    /\ \A i \in DOMAIN b.prestamos : Ok(devolver_libro(b, i))
    /\ \A u \in UsuariosIn :
          u.user_id \notin DOMAIN b.usuarios => Ok(registrar_usuario(b, u))
    /\ \A h \in DOMAIN b.usuarios :
          /\ Ok(libros_prestados_de(b, h))
          /\ b.usuarios[h].prestados = <<>> => Ok(dar_de_baja_usuario(b, h))

\* the call with outcome o, if it raised, left the manager as it is now
Untouched(o) == ~Ok(o) => o.st = Bib

\* C5: in every reachable state, a call of any method that raises leaves
\* libros, user_ids, usuarios (with every prestados list) and prestamos as they
\* were before the call, and in the state a failed call leaves every call
\* whose preconditions hold succeeds.
C5_FailureChangesNothing ==
    /\ \A l \in LibrosIn : Untouched(anadir_libro(Bib, l))
    /\ \A u \in UsuariosIn : Untouched(registrar_usuario(Bib, u))
    /\ \A i \in Isbns :
          /\ Untouched(quitar_libro(Bib, i))
          /\ Untouched(devolver_libro(Bib, i))
          /\ Untouched(disponible(Bib, i))
          /\ \A h \in UserIdsIn : Untouched(prestar_libro(Bib, i, h))
    /\ \A h \in UserIdsIn :
          /\ Untouched(dar_de_baja_usuario(Bib, h))
          /\ Untouched(libros_prestados_de(Bib, h))
    /\ ~Ok(res) => ValidCallsSucceed(Bib)

\* C5 witness: a loan failed in a manager that holds books, users and a loan
C5_Witness ==
    /\ res.op = "prestar_libro"
    /\ ~Ok(res)
    /\ prestamos # <<>>
    /\ Len(libros) = 2

\* C6: in every reachable state, prestar_libro of a catalogue book that is not
\* on loan to a registered user returns; afterwards disponible is false for
\* the book, the loan entry of the book is that user, the book is in the
\* user's held books, and no other loan entry, no other user's held books and
\* no book changed.
C6_LoanSucceeds ==
    /\ \A i \in LibroKeys(libros) \ DOMAIN prestamos, h \in DOMAIN usuarios :
          LET o == prestar_libro(Bib, i, h)
              held == libros_prestados_de(o.st, h).ret
          IN  /\ Ok(o)
              /\ disponible(o.st, i).ret = <<FALSE>>
              /\ DOMAIN o.st.prestamos = DOMAIN prestamos \cup {i}
              /\ o.st.prestamos[i] = h
              /\ \A j \in DOMAIN prestamos : o.st.prestamos[j] = prestamos[j]
              /\ o.st.usuarios[h].prestados = Append(usuarios[h].prestados, i)
              /\ \E k \in DOMAIN held : held[k].isbn = i
              /\ DOMAIN o.st.usuarios = DOMAIN usuarios
              /\ \A g \in DOMAIN usuarios : g # h => o.st.usuarios[g] = usuarios[g]
              /\ o.st.usuarios[h].nombre = usuarios[h].nombre
              /\ o.st.libros = libros
              /\ o.st.user_ids = user_ids
    /\ (res.op = "prestar_libro" /\ Ok(res)) =>
          /\ res.isbn \in DOMAIN prestamos
          /\ prestamos[res.isbn] = res.uid

\* C6 witness: a loan succeeded while another book was on loan to another user
C6_Witness ==
    /\ res.op = "prestar_libro"
    /\ Ok(res)
    /\ \E j \in DOMAIN prestamos : j # res.isbn /\ prestamos[j] # res.uid

\* C7 as stated: in every reachable state, prestar_libro of a book that is on
\* loan raises the "already on loan" error naming the current holder, whatever
\* user id is supplied, and the loan entry stays.
C7_Original ==
    \A i \in DOMAIN prestamos, h \in UserIdsIn :
        LET o == prestar_libro(Bib, i, h)
        IN  /\ AlreadyLoaned(o)
            /\ o.arg = prestamos[i]
            /\ o.st.prestamos = prestamos

\* C7: in every reachable state, prestar_libro of a book that is on loan
\* raises the "already on loan" error naming the current holder for every
\* registered user id supplied; for an unregistered user id it raises the
\* "user not registered" KeyError; in both cases the loan entry and the held
\* books stay as they were.
C7_AlreadyLoaned ==
    \A i \in DOMAIN prestamos, h \in UserIdsIn :
        LET o == prestar_libro(Bib, i, h)
        IN  /\ h \in DOMAIN usuarios => AlreadyLoaned(o) /\ o.arg = prestamos[i]
            /\ h \notin DOMAIN usuarios =>
                  NotFound(o) /\ o.msg = "Usuario no registrado."
            /\ o.st.prestamos = prestamos
            /\ o.st.usuarios = usuarios

\* C7 witness: a registered user other than the holder asked for a lent book
C7_Witness ==
    /\ res.op = "prestar_libro"
    /\ AlreadyLoaned(res)
    /\ res.isbn \in DOMAIN prestamos
    /\ res.uid \in DOMAIN usuarios
    /\ res.uid # prestamos[res.isbn]
    /\ res.arg = prestamos[res.isbn]

\* C8: in every reachable state, prestar_libro raises KeyError and creates no
\* loan entry whenever the ISBN is not in the catalogue or the user id is not
\* registered; disponible raises KeyError for an ISBN outside the catalogue and
\* libros_prestados_de raises KeyError for an unregistered user id.
C8_NotFound ==
    /\ \A i \in Isbns, h \in UserIdsIn :
          (i \notin LibroKeys(libros) \/ h \notin DOMAIN usuarios) =>
              LET o == prestar_libro(Bib, i, h)
              IN  NotFound(o) /\ o.st.prestamos = prestamos /\ o.st.usuarios = usuarios
    /\ \A i \in Isbns \ LibroKeys(libros) :
          NotFound(disponible(Bib, i)) /\ disponible(Bib, i).ret = NoRet
    /\ \A h \in UserIdsIn \ DOMAIN usuarios :
          NotFound(libros_prestados_de(Bib, h)) /\ libros_prestados_de(Bib, h).ret = NoRet
    /\ (res.op \in {"disponible", "libros_prestados_de"} /\ Ok(res)) =>
          (res.isbn \in LibroKeys(libros) \/ res.uid \in DOMAIN usuarios)

\* C8 witness: a catalogue book that is not on loan was asked for by an
\* unregistered user while another user is registered
C8_Witness ==
    /\ res.op = "prestar_libro"
    /\ NotFound(res)
    /\ res.isbn \in LibroKeys(libros) \ DOMAIN prestamos
    /\ res.uid \notin DOMAIN usuarios
    /\ usuarios # <<>>

\* C9: in every reachable state, devolver_libro of a book on loan returns,
\* removes its loan entry and removes the ISBN from its holder's held books;
\* of a book not on loan it raises the "not on loan" error; and after any
\* devolver_libro call a second devolver_libro of the same ISBN raises the
\* "not on loan" error and changes nothing.
C9_ReturnItem ==
    \A i \in Isbns :
        LET o == devolver_libro(Bib, i)
            again == devolver_libro(o.st, i)
        IN  /\ i \in DOMAIN prestamos =>
                  /\ Ok(o)
                  /\ o.st.prestamos = DictDel(prestamos, i)
                  /\ ~ListHas(o.st.usuarios[prestamos[i]].prestados, i)
                  /\ Len(o.st.usuarios[prestamos[i]].prestados)
                         = Len(usuarios[prestamos[i]].prestados) - 1
                  /\ o.st.libros = libros
            /\ i \notin DOMAIN prestamos => NotLoaned(o) /\ o.st = Bib
            /\ NotLoaned(again)
            /\ again.st = o.st

\* C9 witness: a book of the catalogue that is not on loan, while a user is
\* registered, was returned and the call failed
C9_Witness ==
    /\ res.op = "devolver_libro"
    /\ NotLoaned(res)
    /\ res.isbn \in LibroKeys(libros)
    /\ usuarios # <<>>

\* C10: a book enters the catalogue available; it goes from available to on
\* loan only by a successful prestar_libro of it and from on loan to available
\* only by a successful devolver_libro of it, it leaves the catalogue only
\* while available, and right after a return it can be lent to every
\* registered user.
C10_LoanStateMachine ==
    [][ /\ \A i \in Isbns :
              LET inCat == i \in LibroKeys(libros)
                  inCatN == i \in LibroKeys(libros')
                  loaned == i \in DOMAIN prestamos
                  loanedN == i \in DOMAIN prestamos'
              IN  /\ (~inCat /\ inCatN) => ~loanedN
                  /\ (~loaned /\ loanedN) =>
                        /\ inCat /\ inCatN
                        /\ res'.op = "prestar_libro" /\ res'.isbn = i /\ Ok(res')
                  /\ (loaned /\ ~loanedN) =>
                        /\ inCat /\ inCatN
                        /\ res'.op = "devolver_libro" /\ res'.isbn = i /\ Ok(res')
                  /\ (loaned /\ loanedN) => prestamos'[i] = prestamos[i]
        /\ (res'.op = "devolver_libro" /\ Ok(res')) =>
              /\ DOMAIN usuarios' # {}
              /\ \A h \in DOMAIN usuarios' :
                    LET o == prestar_libro(Bib', res'.isbn, h)
                    IN  Ok(o) /\ o.st.prestamos[res'.isbn] = h
      ]_vars

\* C10 witness: a book went back to available by a return, with two users
\* registered and another book still on loan
C10_Witness ==
    /\ res.op = "devolver_libro"
    /\ Ok(res)
    /\ res.isbn \in LibroKeys(libros) \ DOMAIN prestamos
    /\ Cardinality(DOMAIN usuarios) = 2
    /\ prestamos # <<>>

\* C11: in every reachable state and for every ISBN of the catalogue,
\* disponible returns true exactly when prestamos has no entry for the ISBN,
\* which is exactly when no registered user lists the ISBN among its books.
C11_AvailableIffNoEntry ==
    /\ \A i \in LibroKeys(libros) :
          LET o == disponible(Bib, i)
          IN  /\ Ok(o)
              /\ o.ret = <<TRUE>> <=> i \notin DOMAIN prestamos
              /\ o.ret = <<FALSE>> <=> i \in DOMAIN prestamos
              /\ o.ret = <<TRUE>> <=>
                    \A h \in DOMAIN usuarios : ~ListHas(usuarios[h].prestados, i)
    /\ (res.op = "disponible" /\ Ok(res)) =>
          res.ret = <<res.isbn \notin DOMAIN prestamos>>

\* C11 witness: disponible answered false for a book on loan while another
\* book of the catalogue is not on loan
C11_Witness ==
    /\ res.op = "disponible"
    /\ res.ret = <<FALSE>>
    /\ res.isbn \in DOMAIN prestamos
    /\ LibroKeys(libros) \ DOMAIN prestamos # {}

\* C12: in every reachable state, anadir_libro with an ISBN of the catalogue
\* raises the duplicate error and leaves the stored book as it is, and
\* registrar_usuario with a registered id raises the duplicate error and
\* leaves the stored user, with its held books, as it is; each ISBN names at
\* most one book and each id at most one user.
C12_DuplicateKey ==
    /\ \A l \in LibrosIn :
          l.isbn \in LibroKeys(libros) =>
              LET o == anadir_libro(Bib, l)
              IN  /\ DuplicateKey(o) /\ o.arg = l.isbn
                  /\ o.st = Bib
                  /\ LibroGet(o.st.libros, l.isbn) = LibroGet(libros, l.isbn)
    /\ \A u \in UsuariosIn :
          u.user_id \in DOMAIN usuarios =>
              LET o == registrar_usuario(Bib, u)
              IN  /\ DuplicateKey(o) /\ o.arg = u.user_id
                  /\ o.st = Bib
                  /\ o.st.usuarios[u.user_id].prestados = usuarios[u.user_id].prestados
    /\ \A j, k \in 1..Len(libros) : libros[j].isbn = libros[k].isbn => j = k
    /\ \A h \in DOMAIN usuarios : usuarios[h].user_id = h
    /\ DOMAIN usuarios = user_ids

\* C12 witness: a user holding a book was registered again and refused
C12_Witness ==
    /\ res.op = "registrar_usuario"
    /\ DuplicateKey(res)
    /\ res.uid \in DOMAIN usuarios
    /\ usuarios[res.uid].prestados # <<>>

\* C13: in every reachable state and for every book whose ISBN is not in the
\* catalogue, anadir_libro followed by quitar_libro of that ISBN both return
\* and leave libros (same books, same order), usuarios and prestamos as they
\* were before the addition, also with calls that read or fail in between.
C13_AddRemoveRoundTrip ==
    \A l \in LibrosIn :
        l.isbn \notin LibroKeys(libros) =>
            LET added == anadir_libro(Bib, l)
                asked == disponible(added.st, l.isbn)
                twice == anadir_libro(asked.st, l)
                gone == quitar_libro(twice.st, l.isbn)
            IN  /\ Ok(added) /\ Ok(gone)
                /\ Len(added.st.libros) = Len(libros) + 1
                /\ asked.ret = <<TRUE>>
                /\ DuplicateKey(twice)
                /\ gone.st = Bib
                /\ quitar_libro(added.st, l.isbn).st = Bib

\* C13 witness: a book added last to a catalogue holding a book on loan was
\* removed again
C13_Witness ==
    /\ res.op = "quitar_libro"
    /\ Ok(res)
    /\ Len(libros) = 1
    /\ DOMAIN prestamos = LibroKeys(libros)

\* C14: in every reachable state of the indexed inventory the name index is
\* consistent with the primary store: every stored product's normalized name
\* is a key whose set contains its id, and every id in a bucket belongs to a
\* stored product whose current normalized name is the bucket's key.
C14_IndexConsistent ==
    /\ \A k \in 1..Len(productos) :
           /\ Norm(productos[k].nombre) \in DOMAIN index_nombre
           /\ productos[k].pid \in index_nombre[Norm(productos[k].nombre)]
    /\ \A key \in DOMAIN index_nombre : \A i \in index_nombre[key] :
           /\ i \in ProdKeys(productos)
           /\ Norm(ProdGet(productos, i).nombre) = key

\* C15: whenever actualizar_nombre changes the stored name of a product, the
\* bucket of the new normalized key contains the product's id afterwards and
\* the bucket of the old normalized key does not.
C15_RenameMovesId ==
    \A i \in ProdKeys(productos), n \in NombresIn :
        LET o == actualizar_nombre(Inv, i, n)
            old_key == Norm(ProdGet(productos, i).nombre)
            new_key == Norm(ProdGet(o.st.productos, i).nombre)
            idx == o.st.index_nombre
        IN  new_key # old_key =>
                /\ new_key \in DOMAIN idx
                /\ i \in idx[new_key]
                /\ old_key \in DOMAIN idx => i \notin idx[old_key]

\* C16: no key of the name index maps to an empty set, and removing the last
\* id under a key, by eliminar or by a rename, deletes the key itself.
C16_NoEmptyBucket ==
    /\ \A key \in DOMAIN index_nombre : index_nombre[key] # {}
    /\ \A i \in ProdKeys(productos) :
           LET key == Norm(ProdGet(productos, i).nombre)
               last == key \in DOMAIN index_nombre /\ index_nombre[key] = {i}
           IN  /\ last => key \notin DOMAIN eliminar(Inv, i).st.index_nombre
               /\ \A n \in NombresIn :
                      LET o == actualizar_nombre(Inv, i, n)
                      IN  (last /\ Ok(o) /\ Norm(ProdGet(o.st.productos, i).nombre) # key)
                              => key \notin DOMAIN o.st.index_nombre

\* an eliminar or a rename has just returned, and the key the product had
\* before is no longer in the index while another key still is
C16_Witness ==
    /\ res.op \in {"eliminar", "actualizar_nombre"}
    /\ res.exc = "none"
    /\ index_nombre # <<>>
    /\ \E key \in {Norm(n) : n \in NombresIn} : key \notin DOMAIN index_nombre

\* the criterion x is absent: None or blank
Absent(x) == x = None \/ \A k \in 1..Len(x) : x[k] = " "

\* c and d are the same letter up to case
SameLetter(c, d) ==
    \/ c = d
    \/ c \in DOMAIN LowerOf /\ LowerOf[c] = d
    \/ d \in DOMAIN LowerOf /\ LowerOf[d] = c

\* q is a case-insensitive substring of s
ContainsIgnoreCase(q, s) ==
    \E k \in 0..(Len(s) - Len(q)) : \A j \in 1..Len(q) : SameLetter(q[j], s[k + j])

\* C17 as stated: buscar_libros returns exactly the books for which every
\* supplied criterion, as passed, is a case-insensitive substring of its
\* field, with AND between the criteria and no filter for an absent one.
C17_Original ==
    \A t \in TitulosBuscados, a \in AutoresBuscados, c \in CategoriasBuscadas :
        buscar_libros(Bib, t, a, c).ret =
            SelectSeq(libros, LAMBDA lib :
                /\ ~Absent(t) => ContainsIgnoreCase(t, lib.meta[1])
                /\ ~Absent(a) => ContainsIgnoreCase(a, lib.meta[2])
                /\ ~Absent(c) => ContainsIgnoreCase(c, lib.categoria))

\* C17: buscar_libros returns exactly the books, in catalogue order, for which
\* every supplied criterion, stripped of its surrounding whitespace, is a
\* case-insensitive substring of its field; the criteria are combined with
\* AND and an absent one (None or blank) filters nothing.
C17_SearchExact ==
    \A t \in TitulosBuscados, a \in AutoresBuscados, c \in CategoriasBuscadas :
        buscar_libros(Bib, t, a, c).ret =
            SelectSeq(libros, LAMBDA lib :
                /\ ~Absent(t) => ContainsIgnoreCase(StrStrip(t), lib.meta[1])
                /\ ~Absent(a) => ContainsIgnoreCase(StrStrip(a), lib.meta[2])
                /\ ~Absent(c) => ContainsIgnoreCase(StrStrip(c), lib.categoria))

\* a search with two supplied criteria, one of them padded with spaces, has
\* just returned some of the books of the catalogue and not all of them
C17_Witness ==
    /\ res.op = "buscar_libros"
    /\ ~Absent(res.q[1])
    /\ ~Absent(res.q[2])
    /\ StrStrip(res.q[2]) # res.q[2]
    /\ Len(res.ret) > 0
    /\ Len(res.ret) < Len(libros)

\* C18: a search returns every book whose fields contain the criteria after
\* both have been case-folded and stripped of diacritics and of surrounding
\* whitespace.
C18_AccentInsensitive ==
    \A t \in TitulosBuscados, a \in AutoresBuscados, c \in CategoriasBuscadas :
        \A k \in 1..Len(libros) :
            (/\ t # None => StrIn(Norm(t), Norm(libros[k].meta[1]))
             /\ a # None => StrIn(Norm(a), Norm(libros[k].meta[2]))
             /\ c # None => StrIn(Norm(c), Norm(libros[k].categoria)))
                => ListHas(buscar_libros(Bib, t, a, c).ret, libros[k])

\* the products of xs appear in the order in which they were added to the store
InInsertionOrder(xs) ==
    \A j, k \in 1..Len(xs) :
        j < k => ProdPos(productos, xs[j].pid) < ProdPos(productos, xs[k].pid)

\* C19: with no sort key requested, a search returns the matching items in
\* insertion order for every query, also for a query equal to an indexed
\* normalized key that several items share, whatever order the set iterates in.
C19_SearchInsertionOrder ==
    \A q \in ConsultasIn : \A ids \in Perms(Bucket(Inv, q)) :
        LET o == buscar_por_nombre(Inv, q, ids)
        IN  Ok(o) => InInsertionOrder(o.ret)

\* the sort key of a goes strictly before the sort key of b, ascending
KeyLt(orden, a, b) ==
    IF orden = "id" THEN PidLt(a.pid, b.pid)
    ELSE IF orden = "cantidad" THEN a.cantidad < b.cantidad
    ELSE IF orden = "precio" THEN a.precio < b.precio
    ELSE StrLt(Norm(a.nombre), Norm(b.nombre))

\* C20: listar_todos(orden) returns the products ordered by the requested key
\* (ascending or descending), and any two products with equal keys appear in
\* ascending id order, whatever order they were inserted in.
C20_SortedTiesById ==
    \A orden \in OrdenesIn :
        LET xs == listar_todos(Inv, orden).ret
            n == Len(xs)
        IN  /\ \/ \A j, k \in 1..n : j < k => ~KeyLt(orden, xs[k], xs[j])
               \/ \A j, k \in 1..n : j < k => ~KeyLt(orden, xs[j], xs[k])
            /\ \A j, k \in 1..n :
                   (j < k /\ ~KeyLt(orden, xs[j], xs[k]) /\ ~KeyLt(orden, xs[k], xs[j]))
                       => PidLt(xs[j].pid, xs[k].pid)

\* C22: resumen reports the number of books of the catalogue, the number of
\* registered users and the number of entries of the loan mapping; the number
\* of active loans never exceeds the number of books, a successful
\* prestar_libro raises it by exactly 1, a successful devolver_libro lowers it
\* by exactly 1, and no other call changes it.
C22_SummaryCounts ==
    [][ LET before == resumen(Bib).ret
            after == resumen(Bib').ret
        IN  /\ after = <<Cardinality(LibroKeys(libros')),
                         Cardinality(user_ids'),
                         Cardinality({i \in Isbns : i \in DOMAIN prestamos'})>>
            /\ after[3] <= after[1]
            /\ res'.op = "resumen" => res'.ret = after /\ after = before
            /\ IF res'.op = "prestar_libro" /\ Ok(res')
               THEN after[3] = before[3] + 1
               ELSE IF res'.op = "devolver_libro" /\ Ok(res')
               THEN after[3] = before[3] - 1
               ELSE after[3] = before[3]
      ]_vars

\* C22 witness: resumen has just reported a loan while another book of the
\* catalogue is not on loan and a registered user holds nothing
C22_Witness ==
    /\ res.op = "resumen"
    /\ res.ret[3] = 1
    /\ res.ret[1] = 2
    /\ res.ret[2] = 2

\* C26: devolver_libro checks that the ISBN is in the catalogue
\* before it looks at the loans: called with an ISBN that is not in the
\* catalogue it fails with the not-found error, not with the not-loaned
\* error, and changes nothing.
C26_ReturnChecksCatalogue ==
    \A i \in Isbns \ LibroKeys(libros) :
        LET o == devolver_libro(Bib, i)
        IN  /\ NotFound(o)
            /\ ~NotLoaned(o)
            /\ o.st = Bib

\* C28: in every reachable state, a registrar_usuario that succeeds leaves the
\* new user with no book: libros_prestados_de returns the empty list for it,
\* no loan entry maps to its id, and dar_de_baja_usuario of it succeeds at
\* once; this also when the id was registered and deregistered before.
C28_FreshHolderHoldsNothing ==
    /\ \A u \in UsuariosIn :
          LET o == registrar_usuario(Bib, u)
          IN  Ok(o) =>
                  /\ libros_prestados_de(o.st, u.user_id).ret = <<>>
                  /\ Ok(libros_prestados_de(o.st, u.user_id))
                  /\ o.st.usuarios[u.user_id].prestados = <<>>
                  /\ \A i \in DOMAIN o.st.prestamos : o.st.prestamos[i] # u.user_id
                  /\ Ok(dar_de_baja_usuario(o.st, u.user_id))
    /\ (res.op = "registrar_usuario" /\ Ok(res)) =>
          /\ LoanedTo(res.uid) = {}
          /\ usuarios[res.uid].prestados = <<>>

\* C28 witness: a registration has just succeeded while the other registered
\* user holds a book
C28_Witness ==
    /\ res.op = "registrar_usuario"
    /\ Ok(res)
    /\ prestamos # <<>>
    /\ Cardinality(user_ids) = 2
    /\ LoanedTo(res.uid) = {}

\* C29: in every reachable state user_ids is the key set of usuarios, so
\* prestar_libro of a catalogue book accepts an id as registered exactly when
\* registrar_usuario rejects the id as a duplicate.
C29_IdSetMatchesUsers ==
    /\ user_ids = DOMAIN usuarios
    /\ \A h \in UserIdsIn :
          /\ \A u \in UsuariosIn :
                u.user_id = h => (DuplicateKey(registrar_usuario(Bib, u)) <=> h \in user_ids)
          /\ \A i \in LibroKeys(libros) :
                LET o == prestar_libro(Bib, i, h)
                IN  (o.exc = "KeyError" /\ o.msg = "Usuario no registrado.")
                        <=> \A u \in UsuariosIn :
                                u.user_id = h => ~DuplicateKey(registrar_usuario(Bib, u))

\* C29 witness: a user has just been deregistered while another one stays registered
\* and a book is in the catalogue
C29_Witness ==
    /\ res.op = "dar_de_baja_usuario"
    /\ Ok(res)
    /\ user_ids # {}
    /\ libros # <<>>

\* C27: buscar_por_nombre returns exactly the stored products whose normalized
\* name contains the normalized query, for every query, also for one that
\* equals the whole normalized name of a product.
C27_SearchBySubstring ==
    \A q \in ConsultasIn : \A ids \in Perms(Bucket(Inv, q)) :
        LET o == buscar_por_nombre(Inv, q, ids)
        IN  /\ Ok(o)
            /\ Elems(o.ret) =
                   {productos[k] : k \in {j \in 1..Len(productos) :
                                              StrIn(Norm(q), Norm(productos[j].nombre))}}
            /\ Len(o.ret) = Cardinality(Elems(o.ret))

\* the texts of the form YYYY-MM-DD that name a day of the calendar
IsoFecha(s) ==
    /\ Len(s) = 10
    /\ \A k \in {1, 2, 3, 4, 6, 7, 9, 10} : s[k] \in DOMAIN DigitOf
    /\ s[5] = "-" /\ s[8] = "-"
    /\ LET y == NumOf(SubSeq(s, 1, 4))
           m == NumOf(SubSeq(s, 6, 7))
           d == NumOf(SubSeq(s, 9, 10))
       IN  y >= 1 /\ m \in 1..12 /\ d >= 1 /\ d <= DaysIn(y, m)

\* the texts of the form HH:MM that name a minute of the day
IsoHora(s) ==
    /\ Len(s) = 5
    /\ \A k \in {1, 2, 4, 5} : s[k] \in DOMAIN DigitOf
    /\ s[3] = ":"
    /\ NumOf(SubSeq(s, 1, 2)) <= 23 /\ NumOf(SubSeq(s, 4, 5)) <= 59

\* the positions of its, counted from 0, that idxs names
Named(its, idxs) == {idxs[k] : k \in 1..Len(idxs)} \cap (0..(Len(its) - 1))

\* its without the positions of S, the rest in their order
RECURSIVE Without(_, _)
Without(its, S) ==
    IF its = <<>> THEN <<>>
    ELSE LET rest == Without(SubSeq(its, 1, Len(its) - 1), S)
         IN  IF (Len(its) - 1) \in S THEN rest ELSE Append(rest, its[Len(its)])

\* C24: eliminar_indices(idxs) removes exactly the events at the distinct
\* in-range positions of idxs as numbered before the call (a repeated index
\* counts once, a negative or too large one is ignored), returns how many it
\* removed, and keeps the other events in their order, so the list shrinks by
\* the returned value.
C24_RemovesNamedPositions ==
    \A idxs \in IdxsIn :
        LET o == eliminar_indices(agenda_items, idxs)
            S == Named(agenda_items, idxs)
        IN  /\ Ok(o)
            /\ o.st = Without(agenda_items, S)
            /\ o.ret = Cardinality(S)
            /\ Len(o.st) = Len(agenda_items) - o.ret

C24_Witness ==
    /\ res.op = "eliminar_indices"
    /\ res.args = <<2, 0>>
    /\ res.ret = 2
    /\ Len(agenda_items) = 1

\* C25: agregar(fecha, hora, descripcion) raises ValueError and leaves the
\* list as it was whenever a field is empty, the fecha is not a YYYY-MM-DD day
\* of the calendar or the hora is not an HH:MM minute of the day; otherwise it
\* adds exactly one event.
C25_AddValidates ==
    \A f \in FechasIn, h \in HorasIn, d \in DescripcionesIn :
        LET o == agenda_agregar(agenda_items, f, h, d)
        IN  IF f = <<>> \/ h = <<>> \/ d = <<>> \/ ~IsoFecha(f) \/ ~IsoHora(h)
            THEN o.exc = "ValueError" /\ o.st = agenda_items
            ELSE Ok(o) /\ Len(o.st) = Len(agenda_items) + 1

\* C21: listar_todos() returns the products in insertion order, as a list of
\* its own that later changes of the store do not reach; here for the listing
\* of the indexed inventory when no order is asked for.
C21_ListingInInsertionOrder ==
    LET o == listar_todos(Inv, "nombre")
    IN  Ok(o) /\ o.st = Inv /\ InInsertionOrder(o.ret)

\* two rows of the file carry the same id
HasDuplicateIds(filas) ==
    \E j, k \in 1..Len(filas) : j < k /\ StrStrip(filas[j].id) = StrStrip(filas[k].id)

\* C23: loading a file in which two rows have the same id is reported as a
\* failed load: the call returns, and what it reports is an error, not a load
\* that went well after dropping or overwriting one of the rows.
C23_DuplicateIdIsLoadError ==
    archivo.existe /\ HasDuplicateIds(archivo.filas)
        => LET o == cargar_desde_archivo(Lista)
           IN  Ok(o) /\ o.ret.estado = "ERROR"

\* C30: actualizar(pid, cantidad=..., precio=...) is all-or-nothing: when the
\* call raises on an invalid value, the product keeps the cantidad and the
\* precio it had.
C30_UpdateAllOrNothing ==
    \A i \in IdsLista, c \in CantidadesListaIn, p \in PreciosListaIn :
        LET o == lista_actualizar(Lista, i, c, p)
        IN  ~Ok(o) => o.st.productos = lista_productos

\* C34: in every state reached by agregar and eliminar_indices the event list
\* is in ascending order of (fecha, hora, descripcion).
C34_AgendaSorted ==
    \A j, k \in 1..Len(agenda_items) :
        j < k => ~EventoLt(agenda_items[k], agenda_items[j])

C34_Witness ==
    /\ res.op = "agregar"
    /\ res.exc = "none"
    /\ Len(agenda_items) >= 2
    /\ agenda_items[1] = Evento(res.args[1], res.args[2], res.args[3])
    /\ agenda_items[2] # agenda_items[1]

\* C35: confirming removal with k rows selected removes exactly k events, one
\* per selected row, also when several events have the same fecha, hora and
\* descripcion.
C35_RemovesOnePerSelectedRow ==
    \A sel \in SelsIn(Len(agenda_items)) :
        LET o == rm(agenda_items, sel)
        IN  /\ Len(o.st) = Len(agenda_items) - Len(sel)
            /\ o.st = Without(agenda_items, {sel[k] : k \in 1..Len(sel)})

\* C36: in every reachable state a loaned ISBN is in the catalogue, its
\* recorded holder is registered and has the ISBN in the prestados list; so
\* devolver_libro never raises KeyError and never finds the ISBN missing from
\* the list, its only failure is the one for a book not on loan, and
\* libros_prestados_de returns a book for every held ISBN.
C36_LoansAreConsistent ==
    /\ \A i \in DOMAIN prestamos :
          /\ i \in LibroKeys(libros)
          /\ prestamos[i] \in DOMAIN usuarios
          /\ ListHas(usuarios[prestamos[i]].prestados, i)
          /\ LET o == devolver_libro(Bib, i)
             IN  /\ Ok(o)
                 /\ Len(o.st.usuarios[prestamos[i]].prestados)
                       = Len(usuarios[prestamos[i]].prestados) - 1
    /\ \A i \in Isbns :
          LET o == devolver_libro(Bib, i) IN Ok(o) \/ NotLoaned(o)
    /\ \A u \in DOMAIN usuarios :
          Len(libros_prestados_de(Bib, u).ret) = Len(usuarios[u].prestados)

C36_Witness ==
    /\ res.op = "devolver_libro"
    /\ Ok(res)
    /\ DOMAIN prestamos # {}
    /\ \E u \in DOMAIN usuarios : usuarios[u].prestados = <<>>

\* C32: in the list-backed inventory no two stored products share an id;
\* agregar with an id already stored raises and adds nothing; eliminar of an
\* absent id returns False and leaves the list as it was, eliminar of a stored
\* id returns True and removes exactly that product.
C32_IdsAreUnique ==
    /\ \A j, k \in 1..Len(lista_productos) :
          lista_productos[j].id = lista_productos[k].id => j = k
    /\ \A p \in ProductosListaIn :
          LET o == lista_agregar(Lista, p)
          IN  IF \E k \in 1..Len(lista_productos) : lista_productos[k].id = p.id
              THEN o.exc = "ValueError" /\ o.st = Lista
              ELSE Ok(o) /\ o.st.productos = Append(lista_productos, p)
    /\ \A i \in IdsLista :
          LET o == lista_eliminar(Lista, i)
          IN  IF \E k \in 1..Len(lista_productos) : lista_productos[k].id = i
              THEN /\ o.ret = TRUE
                   /\ o.st.productos = SelectSeq(lista_productos, LAMBDA p : p.id # i)
                   /\ Len(o.st.productos) = Len(lista_productos) - 1
              ELSE o.ret = FALSE /\ o.st = Lista

C32_Witness ==
    /\ res.op = "agregar"
    /\ res.exc = "ValueError"
    /\ Len(lista_productos) = 2
    /\ lista_productos[2].id = res.args[1]

\* C31: cargar_desde_archivo is all-or-nothing: when the file holds an invalid
\* row, the list after the call is the list before the call, neither emptied
\* nor holding only the rows that came before the bad one.
C31_LoadAllOrNothing ==
    LET o == cargar_desde_archivo(Lista)
    IN  o.ret.estado = "ERROR" => o.st.productos = lista_productos

\* the id -> (nombre, cantidad) records of a product dict
Records(ps) == {<<ps[k].pid, ps[k].nombre, ps[k].cantidad>> : k \in 1..Len(ps)}

\* C33: cargar applied to what guardar wrote yields an inventory with the same
\* id -> (nombre, cantidad) records, every product under its own pid, and a
\* name index in which every indexed id is a key of the product dict.
C33_SaveLoadRoundTrip ==
    LET o == cargar(guardar(Inv))
    IN  /\ Ok(o)
        /\ Records(o.st.productos) = Records(productos)
        /\ \A j, k \in 1..Len(o.st.productos) :
              o.st.productos[j].pid = o.st.productos[k].pid => j = k
        /\ \A key \in DOMAIN o.st.index_nombre :
              o.st.index_nombre[key] \subseteq ProdKeys(o.st.productos)

====
